---- MODULE Spec2Model ----
(***************************************************************************)
(* Model of WorkflowMachines (src/src/machines/workflow_machines.rs): the  *)
(* coordinator that replays workflow history through per-command state     *)
(* machines and correlates workflow commands with history command events.  *)
(***************************************************************************)
EXTENDS Integers, Sequences, FiniteSets, TLC

(***************************************************************************)
(* Bounds of the model.                                                    *)
(***************************************************************************)
\* largest number of history updates the server hands over in one run
MaxUpdates == 2
\* largest number of workflow commands lang issues in one run
MaxLangCommands == 2

(***************************************************************************)
(* History events.  An event carries its id, its type, the id of its       *)
(* initiating event (0: none), patch-marker details (patch_id "" : none),  *)
(* whether its type-specific attributes are present, and its time.         *)
(***************************************************************************)
Ev(type, init, patch, dep, ok, time) ==
    [event_id |-> 0, event_type |-> type, init |-> init, patch_id |-> patch,
     deprecated |-> dep, attrs_ok |-> ok, time |-> time]

WES          == Ev("WorkflowExecutionStarted", 0, "", FALSE, TRUE, 1)
WTSched      == Ev("WorkflowTaskScheduled", 0, "", FALSE, TRUE, 1)
WTStarted(i, t) == Ev("WorkflowTaskStarted", i, "", FALSE, TRUE, t)
WTCompleted(i)  == Ev("WorkflowTaskCompleted", i, "", FALSE, TRUE, 1)
TimerStarted    == Ev("TimerStarted", 0, "", FALSE, TRUE, 1)
TimerFired(i)   == Ev("TimerFired", i, "", FALSE, TRUE, 1)
TimerCanceled(i) == Ev("TimerCanceled", i, "", FALSE, TRUE, 1)
Marker(p, dep)  == Ev("MarkerRecorded", 0, p, dep, TRUE, 1)
WEC          == Ev("WorkflowExecutionCompleted", 0, "", FALSE, TRUE, 1)
Signaled(ok) == Ev("WorkflowExecutionSignaled", 0, "", FALSE, ok, 1)
CancelRequested(ok) == Ev("WorkflowExecutionCancelRequested", 0, "", FALSE, ok, 1)
ChildInitiated == Ev("StartChildWorkflowExecutionInitiated", 0, "", FALSE, TRUE, 1)

WithIds(h) == [i \in 1..Len(h) |-> [h[i] EXCEPT !.event_id = i]]

\* Scenario 1 of the spec, continued to the completion of the workflow.
HTimer == WithIds(<<WES, WTSched, WTStarted(2, 1), WTCompleted(2), TimerStarted,
                    TimerFired(5), WTSched, WTStarted(7, 2), WTCompleted(7), WEC>>)
\* A deprecated patch marker, then a timer.
HDeprecated == WithIds(<<WES, WTSched, WTStarted(2, 2), WTCompleted(2),
                         Marker("P", TRUE), TimerStarted, WTSched, WTStarted(7, 1)>>)
\* A patch marker that is not deprecated.
HPatch == WithIds(<<WES, WTSched, WTStarted(2, 1), WTCompleted(2),
                    Marker("P", FALSE), WTSched, WTStarted(6, 2), WTCompleted(6), WEC>>)
\* A timer that is cancelled after it was started, in a task woken by a signal.
HCancel == WithIds(<<WES, WTSched, WTStarted(2, 1), WTCompleted(2), TimerStarted,
                     Signaled(TRUE), WTSched, WTStarted(7, 2), WTCompleted(7),
                     TimerCanceled(5), WTSched, WTStarted(11, 3)>>)
\* A timer fires that history never started; a signal without attributes.
HOdd == WithIds(<<WES, WTSched, WTStarted(2, 1), WTCompleted(2), Signaled(FALSE),
                  TimerFired(5), WTSched, WTStarted(7, 1)>>)

\* A patch marker recorded by the second task of a workflow that a signal woke.
HLatePatch == WithIds(<<WES, WTSched, WTStarted(2, 1), WTCompleted(2), Signaled(TRUE),
                        WTSched, WTStarted(6, 2), WTCompleted(6), Marker("P", FALSE),
                        WTSched, WTStarted(10, 3)>>)

\* A child workflow is started and the cancellation of the workflow is requested
\* by an event without attributes.
HChild == WithIds(<<WES, WTSched, WTStarted(2, 1), WTCompleted(2), ChildInitiated,
                    CancelRequested(FALSE), WTSched, WTStarted(7, 2)>>)
\* The first event lacks its attributes.
HNoAttrs == WithIds(<<[WES EXCEPT !.attrs_ok = FALSE], WTSched, WTStarted(2, 1)>>)

Histories == {HTimer, HDeprecated, HPatch, HCancel, HOdd, HLatePatch}

(***************************************************************************)
(* protosext::HistoryEventExt                                              *)
(***************************************************************************)
is_command_event(e) ==
    e.event_type \in {"TimerStarted", "TimerCanceled", "MarkerRecorded",
                      "ActivityTaskScheduled", "StartChildWorkflowExecutionInitiated",
                      "WorkflowExecutionCompleted", "WorkflowExecutionFailed",
                      "WorkflowExecutionContinuedAsNew", "WorkflowExecutionCanceled"}

is_final_wf_execution_event(e) ==
    e.event_type \in {"WorkflowExecutionCompleted", "WorkflowExecutionFailed",
                      "WorkflowExecutionContinuedAsNew", "WorkflowExecutionCanceled"}

\* 0 stands for None
get_initial_command_event_id(e) ==
    IF e.event_type \in {"WorkflowTaskStarted", "WorkflowTaskCompleted",
                         "TimerFired", "TimerCanceled"}
    THEN e.init ELSE 0

has_changed_marker_details(e) == e.event_type = "MarkerRecorded" /\ e.patch_id # ""


\* Some((patch_id, deprecated)) of a patch marker event
get_changed_marker_details(e) == <<e.patch_id, e.deprecated>>

(***************************************************************************)
(* The sub-machines (TemporalStateMachine).  A machine is a record; the    *)
(* fields a kind does not use keep their default.  Every call returns the  *)
(* machine after the call, the MachineResponses and an error ("Ok": none). *)
(***************************************************************************)
NewMachine(kind, state) ==
    [kind |-> kind, state |-> state, seq |-> 0, patch_id |-> "",
     cancelled_before_sent |-> FALSE, wf_task_started_event_id |-> 0,
     started_event_id |-> 0, time |-> 0,
     answers |-> [handle_event |-> <<>>, handle_command |-> <<>>, cancel |-> <<>>]]

Job(variant, seq, patch) == [variant |-> variant, seq |-> seq, patch_id |-> patch]

ProtoCommand(type, seq, patch) == [command_type |-> type, seq |-> seq, patch_id |-> patch]

PushWFJob(j) == [type |-> "PushWFJob", job |-> j, command |-> ProtoCommand("", 0, ""),
                 task_started_event_id |-> 0, time |-> 0]
IssueNewCommand(c) == [type |-> "IssueNewCommand", job |-> Job("", 0, ""), command |-> c,
                       task_started_event_id |-> 0, time |-> 0]
TriggerWFTaskStarted(id, t) ==
    [type |-> "TriggerWFTaskStarted", job |-> Job("", 0, ""),
     command |-> ProtoCommand("", 0, ""), task_started_event_id |-> id, time |-> t]

MachineOk(m, responses) == [machine |-> m, responses |-> responses, err |-> "Ok"]
MachineErr(m, err) == [machine |-> m, responses |-> <<>>, err |-> err]

\* WorkflowTaskMachine::new(next_started_event_id)
WorkflowTaskMachine_new(id) ==
    [NewMachine("WorkflowTask", "Created") EXCEPT !.wf_task_started_event_id = id]

\* new_timer(attrs): the machine has taken its Schedule transition
new_timer(seq) ==
    [machine |-> [NewMachine("Timer", "StartCommandCreated") EXCEPT !.seq = seq],
     command |-> ProtoCommand("StartTimer", seq, "")]

\* has_change(patch_id, replaying, deprecated)
has_change(patch_id, replaying, deprecated) ==
    [machine |-> [NewMachine("Version",
                             IF replaying THEN "MarkerCommandCreatedReplaying"
                                          ELSE "MarkerCommandCreated")
                  EXCEPT !.patch_id = patch_id],
     command |-> ProtoCommand("RecordMarker", 0, patch_id)]

\* complete_workflow(attrs)
complete_workflow ==
    [machine |-> NewMachine("CompleteWorkflow", "CompleteWorkflowCommandCreated"),
     command |-> ProtoCommand("CompleteWorkflowExecution", 0, "")]

\* new_activity(attrs).  The activity machine is one the sub-machine contract
\* allows: it answers handle_command with a job for lang.
new_activity(seq) ==
    [machine |-> [NewMachine("Activity", "ScheduleCommandCreated") EXCEPT !.seq = seq],
     command |-> ProtoCommand("ScheduleActivityTask", seq, "")]

\* new_child_workflow(attrs).  The child workflow machine stands for any machine
\* behind the TemporalStateMachine trait: it accepts every call and answers it
\* with the MachineResponses that were drawn for it when it was made.
new_child_workflow(seq, answers) ==
    [machine |-> [NewMachine("ChildWorkflow", "Created")
                  EXCEPT !.seq = seq, !.answers = answers],
     command |-> ProtoCommand("StartChildWorkflowExecution", seq, "")]

\* fail_workflow(attrs)
fail_workflow ==
    [machine |-> NewMachine("FailWorkflow", "FailWorkflowCommandCreated"),
     command |-> ProtoCommand("FailWorkflowExecution", 0, "")]

\* continue_as_new(attrs)
continue_as_new ==
    [machine |-> NewMachine("ContinueAsNewWorkflow", "ContinueAsNewWorkflowCommandCreated"),
     command |-> ProtoCommand("ContinueAsNewWorkflowExecution", 0, "")]

\* cancel_workflow(attrs)
cancel_workflow ==
    [machine |-> NewMachine("CancelWorkflow", "CancelWorkflowCommandCreated"),
     command |-> ProtoCommand("CancelWorkflowExecution", 0, "")]

\* the history event that records the command of a terminal machine
TerminalEvent(kind) ==
    CASE kind = "CompleteWorkflow" -> "WorkflowExecutionCompleted"
      [] kind = "FailWorkflow" -> "WorkflowExecutionFailed"
      [] kind = "ContinueAsNewWorkflow" -> "WorkflowExecutionContinuedAsNew"
      [] kind = "CancelWorkflow" -> "WorkflowExecutionCanceled"
      [] OTHER -> ""

is_final_state(m) ==
    CASE m.kind = "Timer" -> m.state \in {"Fired", "Canceled"}
      [] m.kind = "Version" -> m.state = "MarkerCommandRecorded"
      [] TerminalEvent(m.kind) # "" -> m.state = m.kind \o "CommandRecorded"
      [] OTHER -> m.state \in {"Completed"}

was_cancelled_before_sent_to_server(m) == m.cancelled_before_sent

matches_event(m, e) ==
    CASE m.kind = "Timer" -> e.event_type \in {"TimerStarted", "TimerCanceled"}
      [] m.kind = "Version" -> has_changed_marker_details(e) /\ e.patch_id = m.patch_id
      [] m.kind = "Activity" -> e.event_type = "ActivityTaskScheduled"
      [] m.kind = "ChildWorkflow" ->
            e.event_type = "StartChildWorkflowExecutionInitiated"
      [] TerminalEvent(m.kind) # "" -> e.event_type = TerminalEvent(m.kind)
      [] OTHER -> FALSE

\* TemporalStateMachine::handle_event
machine_handle_event(m, e, has_next_event) ==
    CASE m.kind = "WorkflowTask" ->
            CASE e.event_type = "WorkflowTaskScheduled" /\ m.state = "Created" ->
                    MachineOk([m EXCEPT !.state = "Scheduled"], <<>>)
              [] e.event_type = "WorkflowTaskStarted" /\ m.state = "Scheduled" ->
                    MachineOk([m EXCEPT !.state = "Started",
                                        !.started_event_id = e.event_id,
                                        !.time = e.time],
                              IF e.event_id >= m.wf_task_started_event_id /\ ~has_next_event
                              THEN <<TriggerWFTaskStarted(m.wf_task_started_event_id, e.time)>>
                              ELSE <<>>)
              [] e.event_type = "WorkflowTaskCompleted" /\ m.state = "Started" ->
                    MachineOk([m EXCEPT !.state = "Completed"],
                              <<TriggerWFTaskStarted(m.started_event_id, m.time)>>)
              [] OTHER -> MachineErr(m, "Nondeterminism")
      [] m.kind = "Timer" ->
            CASE e.event_type = "TimerStarted" /\ m.state = "StartCommandCreated" ->
                    MachineOk([m EXCEPT !.state = "StartCommandRecorded"], <<>>)
              [] e.event_type = "TimerFired" /\ m.state = "StartCommandRecorded" ->
                    MachineOk([m EXCEPT !.state = "Fired"],
                              <<PushWFJob(Job("FireTimer", m.seq, ""))>>)
              [] e.event_type = "TimerCanceled" /\ m.state = "CancelTimerCommandSent" ->
                    MachineOk([m EXCEPT !.state = "Canceled"], <<>>)
              [] OTHER -> MachineErr(m, "Nondeterminism")
      [] m.kind = "Version" ->
            IF has_changed_marker_details(e) /\ e.patch_id = m.patch_id
               /\ m.state = "Notified"
            THEN MachineOk([m EXCEPT !.state = "MarkerCommandRecorded"], <<>>)
            ELSE MachineErr(m, "Nondeterminism")
      [] m.kind = "Activity" ->
            IF e.event_type = "ActivityTaskScheduled" /\ m.state = "ScheduleCommandCreated"
            THEN MachineOk([m EXCEPT !.state = "ScheduledEventRecorded"], <<>>)
            ELSE MachineErr(m, "Nondeterminism")
      [] m.kind = "ChildWorkflow" ->
            MachineOk([m EXCEPT !.state = "StartEventRecorded"], m.answers.handle_event)
      [] OTHER ->
            IF e.event_type = TerminalEvent(m.kind)
               /\ m.state = m.kind \o "CommandCreated"
            THEN MachineOk([m EXCEPT !.state = m.kind \o "CommandRecorded"], <<>>)
            ELSE MachineErr(m, "Nondeterminism")

\* TemporalStateMachine::handle_command
machine_handle_command(m, command_type) ==
    CASE m.kind = "Timer" /\ command_type = "StartTimer"
                          /\ m.state = "StartCommandCreated" -> MachineOk(m, <<>>)
      [] m.kind = "Timer" /\ command_type = "CancelTimer"
                          /\ m.state = "CancelTimerCommandCreated" ->
            MachineOk([m EXCEPT !.state = "CancelTimerCommandSent"], <<>>)
      [] m.kind = "Version" /\ command_type = "RecordMarker"
            /\ m.state \in {"MarkerCommandCreated", "MarkerCommandCreatedReplaying"} ->
            MachineOk([m EXCEPT !.state = "Notified"], <<>>)
      [] m.kind = "Activity" /\ command_type = "ScheduleActivityTask"
                             /\ m.state = "ScheduleCommandCreated" ->
            MachineOk(m, <<PushWFJob(Job("ResolveActivity", m.seq, ""))>>)
      [] m.kind = "ChildWorkflow" -> MachineOk(m, m.answers.handle_command)
      [] TerminalEvent(m.kind) # "" /\ command_type = m.kind \o "Execution"
            /\ m.state = m.kind \o "CommandCreated" -> MachineOk(m, <<>>)
      [] OTHER -> MachineErr(m, "Nondeterminism")

\* TemporalStateMachine::cancel
machine_cancel(m) ==
    CASE m.kind = "Timer" /\ m.state = "StartCommandCreated" ->
            MachineOk([m EXCEPT !.state = "Canceled", !.cancelled_before_sent = TRUE],
                      <<PushWFJob(Job("CancelTimer", m.seq, ""))>>)
      [] m.kind = "Timer" /\ m.state = "StartCommandRecorded" ->
            MachineOk([m EXCEPT !.state = "CancelTimerCommandCreated"],
                      <<IssueNewCommand(ProtoCommand("CancelTimer", m.seq, ""))>>)
      [] m.kind = "Timer" /\ m.state = "CancelTimerCommandCreated" -> MachineOk(m, <<>>)
      [] m.kind = "ChildWorkflow" -> MachineOk(m, m.answers.cancel)
      [] OTHER -> MachineErr(m, "Nondeterminism")


(***************************************************************************)
(* workflow::HistoryUpdate: the events the server handed over that were    *)
(* not taken yet, and previous_started_event_id.                           *)
(***************************************************************************)
HistoryUpdate(events, previous_started_event_id) ==
    [events |-> events, previous_started_event_id |-> previous_started_event_id]

\* index of the first WorkflowTaskStarted of events, Len(events) when there is none
NextWftEnd(events) ==
    LET started == {i \in 1..Len(events) : events[i].event_type = "WorkflowTaskStarted"}
    IN  IF started = {} THEN Len(events)
        ELSE CHOOSE i \in started : \A j \in started : i <= j

\* HistoryUpdate::take_next_wft_sequence(from_wft_started_id): the events taken
\* and the events left
take_next_wft_sequence(update, from_wft_started_id) ==
    LET after == SelectSeq(update.events, LAMBDA e : e.event_id > from_wft_started_id)
        n == NextWftEnd(after)
    IN  [events |-> SubSeq(after, 1, n), rest |-> SubSeq(after, n + 1, Len(after))]

\* HistoryUpdate::peek_next_wft_sequence
peek_next_wft_sequence(update) == SubSeq(update.events, 1, NextWftEnd(update.events))

(***************************************************************************)
(* WorkflowMachines.  The operators below take the struct as a record s    *)
(* and return it as the method leaves it; s.err is the Err the method      *)
(* returned ("Ok": none, "Panic": the thread panicked).  s.dispatched,     *)
(* s.cmd_events and s.popped record what the call did: every               *)
(* TemporalStateMachine::handle_event call, every handle_command_event     *)
(* call, and every entry taken off `commands`.                             *)
(***************************************************************************)
Failed(s) == s.err # "Ok"

machine(s, m) == s.all_machines[m]

send_job(s, job) == [s EXCEPT !.drive_me.jobs = Append(@, job)]

\* set_current_time taking every time it is given
set_current_time_latest(s, time) == [s EXCEPT !.current_wf_time = time]

set_current_time(s, time) ==
    IF s.current_wf_time = 0 \/ s.current_wf_time < time
    THEN [s EXCEPT !.current_wf_time = time]
    ELSE s

\* task_started that tracks the workflow time only
task_started_time_only(s, task_started_event_id, time) == set_current_time(s, time)

task_started(s, task_started_event_id, time) ==
    set_current_time([s EXCEPT !.current_started_event_id = task_started_event_id], time)

RECURSIVE process_machine_responses(_, _, _)
process_machine_responses(s, sm, machine_responses) ==
    IF machine_responses = <<>> THEN s
    ELSE CASE Head(machine_responses).type = "PushWFJob" ->
                process_machine_responses(send_job(s, Head(machine_responses).job),
                                          sm, Tail(machine_responses))
           [] Head(machine_responses).type = "TriggerWFTaskStarted" ->
                process_machine_responses(
                    task_started(s, Head(machine_responses).task_started_event_id,
                                 Head(machine_responses).time),
                    sm, Tail(machine_responses))
           [] Head(machine_responses).type = "UpdateRunIdOnWorkflowReset" ->
                process_machine_responses(send_job(s, Job("UpdateRandomSeed", 0, "")),
                                          sm, Tail(machine_responses))
           [] OTHER -> [s EXCEPT !.err = "Panic"]

\* the machine after its handle_event call, and the call on record
machine_handled(s, sm, event, has_next_event, m) ==
    [s EXCEPT !.all_machines[sm] = m,
              !.dispatched = Append(@, [machine |-> sm, event_id |-> event.event_id,
                                        event_type |-> event.event_type,
                                        has_next_event |-> has_next_event]),
              !.started_dispatched =
                  IF event.event_type = "WorkflowTaskStarted" /\ ~has_next_event
                  THEN event.event_id ELSE @]

\* submachine_handle_event, r being what the machine's handle_event returned
machine_responded(s, sm, event, has_next_event, r) ==
    IF r.err # "Ok"
    THEN [machine_handled(s, sm, event, has_next_event, r.machine) EXCEPT !.err = r.err]
    ELSE process_machine_responses(machine_handled(s, sm, event, has_next_event, r.machine),
                                   sm, r.responses)

submachine_handle_event(s, sm, event, has_next_event) ==
    machine_responded(s, sm, event, has_next_event,
                      machine_handle_event(machine(s, sm), event, has_next_event))

\* change_marker_handling without its SkipCommand arm
change_marker_handling_no_skip(event, mach) ==
    IF ~matches_event(mach, event) /\ has_changed_marker_details(event)
    THEN IF get_changed_marker_details(event)[2] THEN "SkipEvent" ELSE "Nondeterminism"
    ELSE "Normal"

\* change_marker_handling passing over every patch marker that does not match
change_marker_handling_skip_all(event, mach) ==
    IF ~matches_event(mach, event)
    THEN IF has_changed_marker_details(event) THEN "SkipEvent"
         ELSE IF mach.kind = "Version" THEN "SkipCommand" ELSE "Normal"
    ELSE "Normal"

\* the ChangeMarkerOutcome, or "Nondeterminism" for the Err
change_marker_handling(event, mach) ==
    IF ~matches_event(mach, event)
    THEN IF has_changed_marker_details(event)
         THEN IF get_changed_marker_details(event)[2] THEN "SkipEvent"
              ELSE "Nondeterminism"
         ELSE IF mach.kind = "Version" THEN "SkipCommand" ELSE "Normal"
    ELSE "Normal"

NoCommand == [command |-> ProtoCommand("", 0, ""), machine |-> 0]

\* pop_front taking the entry at the back of the queue
pop_back(s) ==
    [s EXCEPT !.commands = SubSeq(@, 1, Len(@) - 1),
              !.popped = Append(@, s.commands[Len(s.commands)])]

pop_front(s) == [s EXCEPT !.commands = Tail(@), !.popped = Append(@, Head(s.commands))]

\* how the loop of handle_command_event is left: the struct, "break" or
\* "return", and the consumed_cmd
LoopLeft(s, left, consumed_cmd) == [s |-> s, left |-> left, consumed_cmd |-> consumed_cmd]

\* the outcome of change_marker_handling for the head of `commands`
peek_outcome(s, event) ==
    IF s.commands # <<>>
    THEN change_marker_handling(event, machine(s, Head(s.commands).machine))
    ELSE "Normal"

\* the event was fed to the machine of command, which left the struct as s
machine_fed(s, command) ==
    LoopLeft(s, IF Failed(s) THEN "return" ELSE "break", command)

\* the loop of handle_command_event
RECURSIVE consume_command(_, _)
\* the loop body after the head was popped as command
command_popped(s, command, event) ==
    IF ~was_cancelled_before_sent_to_server(machine(s, command.machine))
    THEN machine_fed(submachine_handle_event(s, command.machine, event, TRUE), command)
    ELSE consume_command(s, event)

\* command_peeked taking an empty queue for an event to pass over
command_peeked_lenient(s, event, outcome) ==
    CASE outcome = "Nondeterminism" ->
            LoopLeft([s EXCEPT !.err = "Nondeterminism"], "return", NoCommand)
      [] outcome = "SkipEvent" -> LoopLeft(s, "return", NoCommand)
      [] outcome = "SkipCommand" -> consume_command(pop_front(s), event)
      [] OTHER ->
            IF s.commands = <<>>
            THEN LoopLeft(s, "return", NoCommand)
            ELSE command_popped(pop_front(s), Head(s.commands), event)

\* the loop body, outcome being that of the change marker handling
command_peeked(s, event, outcome) ==
    CASE outcome = "Nondeterminism" ->
            LoopLeft([s EXCEPT !.err = "Nondeterminism"], "return", NoCommand)
      [] outcome = "SkipEvent" -> LoopLeft(s, "return", NoCommand)
      [] outcome = "SkipCommand" -> consume_command(pop_front(s), event)
      [] OTHER ->
            IF s.commands = <<>>
            THEN LoopLeft([s EXCEPT !.err = "Nondeterminism"], "return", NoCommand)
            ELSE command_popped(pop_front(s), Head(s.commands), event)

\* a pass of the loop begins
pass_begun(s) == [s EXCEPT !.passes.consume = Append(@, Len(s.commands))]

consume_command(s, event) ==
    command_peeked(pass_begun(s), event, peek_outcome(s, event))

insert(map, key, value) == [k \in DOMAIN map \cup {key} |-> IF k = key THEN value ELSE map[k]]

remove(map, key) == [k \in DOMAIN map \ {key} |-> map[k]]

\* the end of handle_command_event, r being how its loop was left
index_consumed(r, event) ==
    IF r.left = "break" /\ ~is_final_state(machine(r.s, r.consumed_cmd.machine))
    THEN [r.s EXCEPT !.machines_by_event_id =
                        insert(@, event.event_id, r.consumed_cmd.machine)]
    ELSE r.s

\* the handle_command_event call on record: it found the struct as s and left it as s1
command_event_handled(s, event, r, s1) ==
    [s1 EXCEPT !.cmd_events =
        Append(@, [event |-> event, commands_before |-> s.commands,
                   machines_before |-> s.all_machines,
                   commands_after |-> s1.commands,
                   passes |-> SubSeq(s1.passes.consume, Len(s.passes.consume) + 1,
                                     Len(s1.passes.consume)),
                   dispatched_to |-> IF Len(s1.dispatched) > Len(s.dispatched)
                                     THEN s1.dispatched[Len(s1.dispatched)].machine
                                     ELSE 0,
                   err |-> s1.err])]

command_consumed(s, event, r) == command_event_handled(s, event, r, index_consumed(r, event))

handle_command_event(s, event) == command_consumed(s, event, consume_command(s, event))

\* all_machines.insert giving the new machine the key of the newest one
add_machine_reusing_key(s, m) ==
    [s EXCEPT !.all_machines = IF @ = <<>> THEN <<m>> ELSE [@ EXCEPT ![Len(@)] = m]]

add_machine(s, m) == [s EXCEPT !.all_machines = Append(@, m)]

\* the WorkflowTaskScheduled arm after the machine handled the event
index_wf_task_machine(s, event, key) ==
    IF Failed(s) THEN s
    ELSE [s EXCEPT !.machines_by_event_id = insert(@, event.event_id, key)]

\* the WorkflowTaskScheduled arm after the machine was inserted
wf_task_machine_added(s, event, has_next_event) ==
    index_wf_task_machine(
        submachine_handle_event(s, Len(s.all_machines), event, has_next_event),
        event, Len(s.all_machines))

handle_non_stateful_event(s, event, has_next_event) ==
    CASE event.event_type = "WorkflowExecutionStarted" ->
            IF event.attrs_ok
            THEN [send_job([s EXCEPT !.workflow_start_time = event.time],
                           Job("StartWorkflow", 0, ""))
                  EXCEPT !.drive_me.started = TRUE]
            ELSE [s EXCEPT !.err = "Fatal"]
      [] event.event_type = "WorkflowTaskScheduled" ->
            wf_task_machine_added(
                add_machine(s, WorkflowTaskMachine_new(s.next_started_event_id)),
                event, has_next_event)
      [] event.event_type = "WorkflowExecutionSignaled" ->
            IF event.attrs_ok THEN send_job(s, Job("SignalWorkflow", 0, "")) ELSE s
      [] event.event_type = "WorkflowExecutionCancelRequested" ->
            IF event.attrs_ok THEN send_job(s, Job("CancelWorkflow", 0, "")) ELSE s
      [] OTHER -> [s EXCEPT !.err = "Fatal"]

\* handle_event: the latch of the terminal event
latch_terminal_event(s, event) ==
    IF is_final_wf_execution_event(event)
    THEN [s EXCEPT !.have_seen_terminal_event = TRUE] ELSE s

\* finish_replay without the comparison of the started event ids
finish_replay_at_once(s, event) ==
    IF s.replaying /\ event.event_type # "WorkflowTaskCompleted"
    THEN [s EXCEPT !.replaying = FALSE, !.replay_ended = @ + 1] ELSE s

\* handle_event: "Replay is finished"
finish_replay(s, event) ==
    IF /\ s.replaying
       /\ s.current_started_event_id >= s.last_history_from_server.previous_started_event_id
       /\ event.event_type # "WorkflowTaskCompleted"
    THEN [s EXCEPT !.replaying = FALSE, !.replay_ended = @ + 1] ELSE s

\* restore_machine without the look at the machine's state
restore_machine_always(s, initial_cmd_id, sm) ==
    IF Failed(s) THEN s
    ELSE [s EXCEPT !.machines_by_event_id = insert(@, initial_cmd_id, sm)]

\* handle_event: "Restore machine if not in it's final state"
restore_machine(s, initial_cmd_id, sm) ==
    IF Failed(s) THEN s
    ELSE IF ~is_final_state(machine(s, sm))
    THEN [s EXCEPT !.machines_by_event_id = insert(@, initial_cmd_id, sm)]
    ELSE s

\* the routing of an event with an initiating event id on record: s is the
\* struct before the match, r the struct after it
event_routed(s, r, event, initial_cmd_id) ==
    [r EXCEPT !.routed =
        Append(@, [event_id |-> event.event_id,
                   initial_cmd_id |-> initial_cmd_id,
                   indexed |-> IF initial_cmd_id \in DOMAIN s.machines_by_event_id
                               THEN s.machines_by_event_id[initial_cmd_id] ELSE 0,
                   err |-> r.err,
                   present |-> initial_cmd_id \in DOMAIN r.machines_by_event_id,
                   final |-> IF initial_cmd_id \in DOMAIN s.machines_by_event_id
                             THEN is_final_state(
                                      machine(r, s.machines_by_event_id[initial_cmd_id]))
                             ELSE FALSE])]

\* the Some(initial_cmd_id) arm
handle_initiated_event(s, event, has_next_event, initial_cmd_id) ==
    IF initial_cmd_id \in DOMAIN s.machines_by_event_id
    THEN restore_machine(
             submachine_handle_event(
                 [s EXCEPT !.machines_by_event_id = remove(@, initial_cmd_id)],
                 s.machines_by_event_id[initial_cmd_id], event, has_next_event),
             initial_cmd_id, s.machines_by_event_id[initial_cmd_id])
    ELSE [s EXCEPT !.err = "Nondeterminism"]

\* handle_event: the match on get_initial_command_event_id
route_event(s, event, has_next_event, initial_cmd_id) ==
    IF initial_cmd_id # 0
    THEN event_routed(s, handle_initiated_event(s, event, has_next_event, initial_cmd_id),
                      event, initial_cmd_id)
    ELSE handle_non_stateful_event(s, event, has_next_event)

\* handle_event after the latch
classify_event(s, event, has_next_event) ==
    IF is_command_event(event) THEN handle_command_event(s, event)
    ELSE route_event(finish_replay(s, event), event, has_next_event,
                     get_initial_command_event_id(event))

\* a handle_event call on record: s is the struct before it, r the struct after
event_handled_by(s, r, event) ==
    [r EXCEPT !.handled =
        Append(@, [event |-> event, err |-> r.err,
                   forwarded |-> r.drive_me # s.drive_me])]

handle_event(s, event, has_next_event) ==
    event_handled_by(
        s, classify_event(latch_terminal_event(s, event), event, has_next_event), event)

\* the while loop of apply_next_wft_from_history, from the i-th event on
RECURSIVE handle_events(_, _, _)
\* the loop handling the first event a second time
event_handled_again(s, events, i) ==
    IF Failed(s) THEN s
    ELSE handle_events(s, events, IF Len(s.handled) = 1 THEN i ELSE i + 1)

\* the loop after handle_event(events[i], ..) left the struct as s
event_handled(s, events, i) ==
    IF Failed(s) THEN s ELSE handle_events(s, events, i + 1)

handle_events(s, events, i) ==
    IF i > Len(events) THEN s
    ELSE IF events[i].event_type = "WorkflowTaskStarted" /\ ~(i < Len(events))
         THEN handle_event(s, events[i], FALSE)
         ELSE event_handled(handle_event(s, events[i], i < Len(events)), events, i)

\* the patch pre-scan of apply_next_wft_from_history, from the i-th peeked event on
RECURSIVE scan_patch_markers(_, _, _)
scan_patch_markers(s, peeked, i) ==
    IF i > Len(peeked) THEN s
    ELSE IF has_changed_marker_details(peeked[i])
         THEN scan_patch_markers(
                  send_job([s EXCEPT !.encountered_change_markers =
                                insert(@, get_changed_marker_details(peeked[i])[1],
                                       [deprecated |->
                                            get_changed_marker_details(peeked[i])[2],
                                        created_command |-> FALSE])],
                           Job("NotifyHasPatch", 0,
                               get_changed_marker_details(peeked[i])[1])),
                  peeked, i + 1)
         ELSE scan_patch_markers(s, peeked, i + 1)

\* apply_next_wft_from_history after its while loop, without the pre-scan
events_handled_no_scan(s) == s

\* apply_next_wft_from_history after its while loop
events_handled(s) ==
    IF Failed(s) THEN s
    ELSE scan_patch_markers(s, peek_next_wft_sequence(s.last_history_from_server), 1)

\* apply_next_wft_from_history: "We're caught up on reply if there are no new events"
caught_up(s, events) ==
    IF events = <<>>
    THEN [s EXCEPT !.replaying = FALSE,
                   !.replay_ended = IF s.replaying THEN @ + 1 ELSE @]
    ELSE s

\* apply_next_wft_from_history: next_started_event_id from the last event
\* note_next_started taking the id of the first event of the sequence
note_next_started_of_first(s, events) ==
    IF events # <<>> /\ events[Len(events)].event_type = "WorkflowTaskStarted"
    THEN [s EXCEPT !.next_started_event_id = events[1].event_id]
    ELSE s

note_next_started(s, events) ==
    IF events # <<>> /\ events[Len(events)].event_type = "WorkflowTaskStarted"
    THEN [s EXCEPT !.next_started_event_id = events[Len(events)].event_id]
    ELSE s

first_event_id(events) == IF events # <<>> THEN events[1].event_id ELSE 0

\* check_cache_and_handle without the test of current_started_event_id
check_cache_and_handle_any_start(s, events) ==
    IF first_event_id(events) # 1 /\ events # <<>>
    THEN [s EXCEPT !.err = "CacheMiss"]
    ELSE events_handled(handle_events(s, events, 1))

\* apply_next_wft_from_history from the cache miss check on
check_cache_and_handle(s, events) ==
    IF s.current_started_event_id = 0 /\ first_event_id(events) # 1 /\ events # <<>>
    THEN [s EXCEPT !.err = "CacheMiss"]
    ELSE events_handled(handle_events(s, events, 1))

\* apply_next_wft_from_history, taken being what take_next_wft_sequence took and left
sequence_taken(s, taken) ==
    check_cache_and_handle(
        note_next_started(
            caught_up([s EXCEPT !.last_history_from_server.events = taken.rest,
                                !.taken = Append(@, taken.events)],
                      taken.events),
            taken.events),
        taken.events)

\* apply_next_wft_from_history without the early return
apply_next_wft_from_history_unlatched(s) ==
    sequence_taken(s, take_next_wft_sequence(s.last_history_from_server,
                                             s.current_started_event_id))

apply_next_wft_from_history(s) ==
    IF s.have_seen_terminal_event THEN s
    ELSE sequence_taken(s, take_next_wft_sequence(s.last_history_from_server,
                                                  s.current_started_event_id))

\* new_history_from_server leaving `replaying` as the last update left it
new_history_from_server_keeps_replaying(s, update) ==
    apply_next_wft_from_history([s EXCEPT !.last_history_from_server = update])

new_history_from_server(s, update) ==
    apply_next_wft_from_history(
        [s EXCEPT !.last_history_from_server = update,
                  !.replaying = update.previous_started_event_id > 0])

(***************************************************************************)
(* Workflow commands (WFCommand) pulled from the driver.                   *)
(***************************************************************************)
WFCommand(type, seq, patch, dep) ==
    [type |-> type, seq |-> seq, patch_id |-> patch, deprecated |-> dep]

CommandID(kind, seq) == <<kind, seq>>

CommandAndMachine(command, m) == [command |-> command, machine |-> m]

\* the struct with the new machine registered, and the CommandAndMachine
add_new_command_machine(s, new_machine) ==
    LET s1 == add_machine(s, new_machine.machine)
    IN  [s |-> s1, cmd |-> CommandAndMachine(new_machine.command, Len(s1.all_machines))]

push_current(s, c) ==
    [s EXCEPT !.current_wf_task_commands = Append(@, c)]

\* add_terminal_command without the end time
add_terminal_command_no_end_time(s, new_machine) ==
    LET r == add_new_command_machine(s, new_machine)
    IN  push_current(r.s, r.cmd)

add_terminal_command(s, new_machine) ==
    LET r == add_new_command_machine(s, new_machine)
    IN  push_current([r.s EXCEPT !.workflow_end_time = 1], r.cmd)

RECURSIVE classify_cancel_responses(_, _, _, _)
\* the response loop of process_cancellation putting each job before the others
classify_cancel_responses_reversed(s, m_key, res, jobs) ==
    IF res = <<>> THEN [s |-> s, jobs |-> jobs]
    ELSE LET r == Head(res)
         IN  CASE r.type = "IssueNewCommand" ->
                    classify_cancel_responses(
                        push_current(s, CommandAndMachine(r.command, m_key)),
                        m_key, Tail(res), jobs)
               [] r.type = "PushWFJob" ->
                    classify_cancel_responses(s, m_key, Tail(res), <<r.job>> \o jobs)
               [] OTHER -> [s |-> [s EXCEPT !.err = "Fatal"], jobs |-> <<>>]

\* the response loop of process_cancellation
classify_cancel_responses(s, m_key, res, jobs) ==
    IF res = <<>> THEN [s |-> s, jobs |-> jobs]
    ELSE LET r == Head(res)
         IN  CASE r.type = "IssueNewCommand" ->
                    classify_cancel_responses(
                        push_current(s, CommandAndMachine(r.command, m_key)),
                        m_key, Tail(res), jobs)
               [] r.type = "PushWFJob" ->
                    classify_cancel_responses(s, m_key, Tail(res), Append(jobs, r.job))
               [] OTHER -> [s |-> [s EXCEPT !.err = "Fatal"], jobs |-> <<>>]

\* process_cancellation from the look-up of the machine on
cancel_machine(s, id) ==
    IF id \notin DOMAIN s.id_to_machine
    THEN [s |-> [s EXCEPT !.err = "Fatal"], jobs |-> <<>>]
    ELSE LET m_key == s.id_to_machine[id]
             r == machine_cancel(machine(s, m_key))
             s1 == [s EXCEPT !.all_machines[m_key] = r.machine,
                             !.cancel_calls = Append(@, m_key)]
         IN  IF r.err # "Ok" THEN [s |-> [s1 EXCEPT !.err = r.err], jobs |-> <<>>]
             ELSE classify_cancel_responses(s1, m_key, r.responses, <<>>)

\* what cancel() of the machine with this id answers (the Err included)
cancel_answer(s, id) ==
    IF id \in DOMAIN s.id_to_machine
    THEN machine_cancel(machine(s, s.id_to_machine[id]))
    ELSE MachineErr(NewMachine("", ""), "Ok")

\* a process_cancellation call on record: s is the struct before it, r what
\* the call left and returned
cancellation_made(s, id, r) ==
    [s |-> [r.s EXCEPT !.cancellations =
                Append(@, [id |-> id,
                           m_key |-> IF id \in DOMAIN s.id_to_machine
                                     THEN s.id_to_machine[id] ELSE 0,
                           responses |-> cancel_answer(s, id).responses,
                           cancel_err |-> cancel_answer(s, id).err,
                           current_before |-> s.current_wf_task_commands,
                           current_after |-> r.s.current_wf_task_commands,
                           jobs |-> r.jobs,
                           err |-> r.s.err])],
     jobs |-> r.jobs]

\* the struct after the call and the jobs it returns
process_cancellation(s, id) == cancellation_made(s, id, cancel_machine(s, id))

\* the struct after the call and the jobs it returns
RECURSIVE handle_driven_results(_, _, _)
handle_driven_results(s, results, jobs) ==
    IF results = <<>> THEN [s |-> s, jobs |-> jobs]
    ELSE
    LET cmd == Head(results)
        rest == Tail(results)
    IN  CASE cmd.type = "AddTimer" ->
                LET r == add_new_command_machine(s, new_timer(cmd.seq))
                    s1 == [r.s EXCEPT !.id_to_machine =
                                insert(@, CommandID("Timer", cmd.seq), r.cmd.machine)]
                IN  handle_driven_results(push_current(s1, r.cmd), rest, jobs)
          [] cmd.type = "AddActivity" ->
                LET r == add_new_command_machine(s, new_activity(cmd.seq))
                    s1 == [r.s EXCEPT !.id_to_machine =
                                insert(@, CommandID("Activity", cmd.seq), r.cmd.machine)]
                IN  handle_driven_results(push_current(s1, r.cmd), rest, jobs)
          [] cmd.type = "CancelTimer" ->
                LET r == process_cancellation(s, CommandID("Timer", cmd.seq))
                IN  IF Failed(r.s) THEN [s |-> r.s, jobs |-> <<>>]
                    ELSE handle_driven_results(r.s, rest, jobs \o r.jobs)
          [] cmd.type = "AddChildWorkflow" ->
                LET r == add_new_command_machine(
                             s, new_child_workflow(cmd.seq, cmd.answers))
                    s1 == [r.s EXCEPT !.id_to_machine =
                                insert(@, CommandID("ChildWorkflowStart", cmd.seq),
                                       r.cmd.machine)]
                IN  handle_driven_results(push_current(s1, r.cmd), rest, jobs)
          [] cmd.type = "CancelUnstartedChild" ->
                LET r == process_cancellation(s, CommandID("ChildWorkflowStart", cmd.seq))
                IN  IF Failed(r.s) THEN [s |-> r.s, jobs |-> <<>>]
                    ELSE handle_driven_results(r.s, rest, jobs \o r.jobs)
          [] cmd.type = "CompleteWorkflow" ->
                handle_driven_results(add_terminal_command(s, complete_workflow), rest, jobs)
          [] cmd.type = "FailWorkflow" ->
                handle_driven_results(add_terminal_command(s, fail_workflow), rest, jobs)
          [] cmd.type = "ContinueAsNew" ->
                handle_driven_results(add_terminal_command(s, continue_as_new), rest, jobs)
          [] cmd.type = "CancelWorkflow" ->
                handle_driven_results(add_terminal_command(s, cancel_workflow), rest, jobs)
          [] cmd.type = "SetPatchMarker" ->
                IF ~(/\ cmd.patch_id \in DOMAIN s.encountered_change_markers
                     /\ s.encountered_change_markers[cmd.patch_id].created_command)
                THEN LET r == add_new_command_machine(
                                  s, has_change(cmd.patch_id, s.replaying, cmd.deprecated))
                         s1 == push_current(r.s, r.cmd)
                         s2 == IF cmd.patch_id \in DOMAIN s1.encountered_change_markers
                               THEN [s1 EXCEPT !.encountered_change_markers[cmd.patch_id]
                                                    .created_command = TRUE]
                               ELSE [s1 EXCEPT !.encountered_change_markers =
                                        insert(@, cmd.patch_id,
                                               [deprecated |-> cmd.deprecated,
                                                created_command |-> TRUE])]
                     IN  handle_driven_results(s2, rest, jobs)
                ELSE handle_driven_results(s, rest, jobs)
          [] OTHER -> handle_driven_results(s, rest, jobs)

RECURSIVE prepare_commands(_)
\* the loop of prepare_commands after handle_command returned r for entry c
command_handled(s, c, r) ==
    IF r.err # "Ok" THEN [s EXCEPT !.err = r.err]
    ELSE IF Failed(process_machine_responses(s, c.machine, r.responses))
         THEN process_machine_responses(s, c.machine, r.responses)
         ELSE prepare_commands(
                  [process_machine_responses(s, c.machine, r.responses)
                   EXCEPT !.commands = Append(@, c), !.pushed = Append(@, c)])

\* the loop body of prepare_commands for an entry c that was not cancelled
handle_command(s, c, r) ==
    command_handled([s EXCEPT !.all_machines[c.machine] = r.machine,
                              !.command_calls = Append(@, c)],
                    c, r)

\* current_wf_task_commands.pop_front()
pop_current(s) ==
    [s EXCEPT !.current_wf_task_commands = Tail(@),
              !.passes.drain = Append(@, Len(s.current_wf_task_commands))]

\* prepare_commands keeping the entries that were cancelled before they were sent
prepare_commands_keep_cancelled(s) ==
    IF s.current_wf_task_commands = <<>> THEN s
    ELSE IF ~was_cancelled_before_sent_to_server(
                 machine(s, Head(s.current_wf_task_commands).machine))
         THEN handle_command(
                  pop_current(s), Head(s.current_wf_task_commands),
                  machine_handle_command(
                      machine(s, Head(s.current_wf_task_commands).machine),
                      Head(s.current_wf_task_commands).command.command_type))
         ELSE prepare_commands(
                  [pop_current(s) EXCEPT
                       !.commands = Append(@, Head(s.current_wf_task_commands)),
                       !.pushed = Append(@, Head(s.current_wf_task_commands))])

prepare_commands(s) ==
    IF s.current_wf_task_commands = <<>> THEN s
    ELSE IF ~was_cancelled_before_sent_to_server(
                 machine(s, Head(s.current_wf_task_commands).machine))
         THEN handle_command(
                  pop_current(s), Head(s.current_wf_task_commands),
                  machine_handle_command(
                      machine(s, Head(s.current_wf_task_commands).machine),
                      Head(s.current_wf_task_commands).command.command_type))
         ELSE prepare_commands(pop_current(s))

RECURSIVE send_jobs(_, _)
send_jobs(s, jobs) ==
    IF jobs = <<>> THEN s ELSE send_jobs(send_job(s, Head(jobs)), Tail(jobs))

workflow_is_finished(s) == s.workflow_end_time # 0

\* the struct after the call and the flag it returns
iterate_machines(s, results) ==
    LET r == handle_driven_results(s, results, <<>>)
    IN  IF Failed(r.s) THEN [s |-> r.s, has_new_lang_jobs |-> FALSE]
        ELSE LET has_new_lang_jobs == r.jobs # <<>>
                 s1 == send_jobs(r.s, r.jobs)
             IN  [s |-> prepare_commands(s1), has_new_lang_jobs |-> has_new_lang_jobs]

\* get_commands without its filter
get_commands_unfiltered(s) == [i \in 1..Len(s.commands) |-> s.commands[i].command]

get_commands(s) ==
    LET live == SelectSeq(s.commands, LAMBDA c : ~is_final_state(machine(s, c.machine)))
    IN  [i \in 1..Len(live) |-> live[i].command]

\* get_wf_activation reading the job buffer without draining it
get_wf_activation_undrained(s) ==
    [s |-> s,
     activation |-> [timestamp |-> s.current_wf_time, is_replaying |-> s.replaying,
                     jobs |-> s.drive_me.jobs]]

\* the struct after the call and the WfActivation it returns
get_wf_activation(s) ==
    [s |-> [s EXCEPT !.drive_me.jobs = <<>>],
     activation |-> [timestamp |-> s.current_wf_time, is_replaying |-> s.replaying,
                     jobs |-> s.drive_me.jobs]]

\* WorkflowMachines::new(.., history, ..)
new(history) ==
    [last_history_from_server |-> history,
     replaying |-> history.previous_started_event_id > 0,
     current_started_event_id |-> 0,
     next_started_event_id |-> 0,
     workflow_start_time |-> 0,
     workflow_end_time |-> 0,
     current_wf_time |-> 0,
     all_machines |-> <<>>,
     machines_by_event_id |-> <<>>,
     id_to_machine |-> <<>>,
     commands |-> <<>>,
     current_wf_task_commands |-> <<>>,
     encountered_change_markers |-> <<>>,
     drive_me |-> [jobs |-> <<>>, started |-> FALSE],
     have_seen_terminal_event |-> FALSE,
     err |-> "Ok", dispatched |-> <<>>, cmd_events |-> <<>>, taken |-> <<>>,
     cancel_calls |-> <<>>, command_calls |-> <<>>, routed |-> <<>>,
     handled |-> <<>>, cancellations |-> <<>>,
     passes |-> [consume |-> <<>>, drain |-> <<>>],
     popped |-> <<>>, pushed |-> <<>>,
     replay_ended |-> 0, started_dispatched |-> 0]


(***************************************************************************)
(* The state: the fields of WorkflowMachines, what the last call did and   *)
(* returned, and the environment (the server's history, lang's commands).  *)
(***************************************************************************)
VARIABLES
    last_history_from_server, current_started_event_id, next_started_event_id,
    replaying, workflow_start_time, workflow_end_time, current_wf_time,
    all_machines, machines_by_event_id, id_to_machine, commands,
    current_wf_task_commands, encountered_change_markers, drive_me,
    have_seen_terminal_event,
    \* the Err of the last call ("Ok": none) and what the call did
    err, dispatched, cmd_events, taken, cancel_calls, command_calls,
    \* the events with an initiating event id that the call routed, each with the
    \* machine the index held for it (0: none) and what handle_event left
    routed,
    \* every handle_event call of the call: its event, the Err it returned and
    \* whether it forwarded anything to the driver
    handled,
    \* every process_cancellation call of the call: its id, the machine it found
    \* (0: none), what cancel() answered and what the call did and returned
    cancellations,
    \* the length of `commands` at the start of every pass of the loop of
    \* handle_command_event, and that of current_wf_task_commands at the start of
    \* every pass of the loop of prepare_commands that found an entry
    passes,
    \* every entry taken off `commands` and every entry put on it, in order
    popped, pushed,
    \* how often `replaying` went from true to false
    replay_ended,
    \* the id of the last WorkflowTaskStarted event that was handed to a machine
    \* with has_next_event false (0: none)
    started_dispatched,
    \* the last call, the workflow commands it fetched and the value it returned
    op, results, returned,
    \* the history of the run on the server, the largest event id it handed over
    \* so far, the updates handed over so far and the workflow commands issued so far
    server_history, handed_over, updates, lang_commands,
    \* the same struct, had the server handed the whole history over at once
    one_pass

vars == <<last_history_from_server, current_started_event_id, next_started_event_id,
          replaying, workflow_start_time, workflow_end_time, current_wf_time,
          all_machines, machines_by_event_id, id_to_machine, commands,
          current_wf_task_commands, encountered_change_markers, drive_me,
          have_seen_terminal_event, err, dispatched, cmd_events, taken,
          cancel_calls, command_calls, routed, handled, cancellations, passes, popped,
          pushed,
          replay_ended,
          started_dispatched,
          op, results,
          returned,
          server_history, handed_over, updates, lang_commands, one_pass>>

\* the struct as the next call finds it
Self ==
    [last_history_from_server |-> last_history_from_server,
     replaying |-> replaying,
     current_started_event_id |-> current_started_event_id,
     next_started_event_id |-> next_started_event_id,
     workflow_start_time |-> workflow_start_time,
     workflow_end_time |-> workflow_end_time,
     current_wf_time |-> current_wf_time,
     all_machines |-> all_machines,
     machines_by_event_id |-> machines_by_event_id,
     id_to_machine |-> id_to_machine,
     commands |-> commands,
     current_wf_task_commands |-> current_wf_task_commands,
     encountered_change_markers |-> encountered_change_markers,
     drive_me |-> drive_me,
     have_seen_terminal_event |-> have_seen_terminal_event,
     err |-> "Ok", dispatched |-> <<>>, cmd_events |-> <<>>, taken |-> <<>>,
     cancel_calls |-> <<>>, command_calls |-> <<>>, routed |-> <<>>,
     handled |-> <<>>, cancellations |-> <<>>,
     passes |-> [consume |-> <<>>, drain |-> <<>>],
     popped |-> popped, pushed |-> pushed,
     replay_ended |-> replay_ended, started_dispatched |-> started_dispatched]

\* the struct as a call left it
Becomes(s) ==
    /\ last_history_from_server' = s.last_history_from_server
    /\ replaying' = s.replaying
    /\ current_started_event_id' = s.current_started_event_id
    /\ next_started_event_id' = s.next_started_event_id
    /\ workflow_start_time' = s.workflow_start_time
    /\ workflow_end_time' = s.workflow_end_time
    /\ current_wf_time' = s.current_wf_time
    /\ all_machines' = s.all_machines
    /\ machines_by_event_id' = s.machines_by_event_id
    /\ id_to_machine' = s.id_to_machine
    /\ commands' = s.commands
    /\ current_wf_task_commands' = s.current_wf_task_commands
    /\ encountered_change_markers' = s.encountered_change_markers
    /\ drive_me' = s.drive_me
    /\ have_seen_terminal_event' = s.have_seen_terminal_event
    /\ err' = s.err
    /\ dispatched' = s.dispatched
    /\ cmd_events' = s.cmd_events
    /\ taken' = s.taken
    /\ cancel_calls' = s.cancel_calls
    /\ routed' = s.routed
    /\ handled' = s.handled
    /\ cancellations' = s.cancellations
    /\ passes' = s.passes
    /\ command_calls' = s.command_calls
    /\ popped' = s.popped
    /\ pushed' = s.pushed
    /\ replay_ended' = s.replay_ended
    /\ started_dispatched' = s.started_dispatched

\* the history updates the server can hand over for history h: the events of
\* the whole tasks a..b; previous_started_event_id is the id of the last
\* WorkflowTaskStarted before the one the update ends with (the task the worker
\* completed last), or 0 (the worker completed none)
TaskEnds(h) ==
    {i \in 1..Len(h) : h[i].event_type = "WorkflowTaskStarted"} \cup {Len(h)}

TaskStarts(h) ==
    {1} \cup {i + 1 : i \in {j \in 1..(Len(h) - 1) : h[j].event_type = "WorkflowTaskStarted"}}

PreviousStarted(h, b) ==
    LET started == {i \in 1..(b - 1) : h[i].event_type = "WorkflowTaskStarted"}
    IN  IF started = {} THEN 0 ELSE CHOOSE i \in started : \A j \in started : j <= i

\* the updates of history h that start with event a
Updates(h, a) ==
    UNION {{HistoryUpdate(SubSeq(h, a, b), p) : p \in {0, PreviousStarted(h, b)}} :
                b \in {x \in TaskEnds(h) : x >= a}}

\* the workflow commands lang can issue
LangCommands ==
    {WFCommand("AddTimer", 1, "", FALSE), WFCommand("CancelTimer", 1, "", FALSE),
     WFCommand("SetPatchMarker", 0, "P", FALSE),
     WFCommand("CompleteWorkflow", 0, "", FALSE), WFCommand("FailWorkflow", 0, "", FALSE),
     WFCommand("ContinueAsNew", 0, "", FALSE), WFCommand("CancelWorkflow", 0, "", FALSE)}

\* the batches of at most n workflow commands
RECURSIVE Batches(_)
Batches(n) ==
    IF n = 0 THEN {<<>>}
    ELSE LET shorter == Batches(n - 1)
         IN  shorter \cup {Append(b, c) : b \in {x \in shorter : Len(x) = n - 1},
                                          c \in LangCommands}

\* lang numbers its timers itself and never reuses a seq
FreshSeqs(s, batch) ==
    \A i \in 1..Len(batch) :
        batch[i].type = "AddTimer" =>
            /\ CommandID("Timer", batch[i].seq) \notin DOMAIN s.id_to_machine
            /\ \A j \in 1..(i - 1) : batch[j] # batch[i]

\* the workflow code ends with its terminal command: none follows it
EndsAtTerminal(s, batch) ==
    /\ batch # <<>> => s.workflow_end_time = 0
    /\ \A i \in 1..(Len(batch) - 1) :
          batch[i].type \notin {"CompleteWorkflow", "FailWorkflow", "ContinueAsNew",
                                "CancelWorkflow"}

\* the workflow commands the driver can hold when iterate_machines fetches them:
\* the workflow code runs, and issues commands, only once it was started
Issuable(s, batch) ==
    /\ FreshSeqs(s, batch)
    /\ batch # <<>> => s.drive_me.started
    /\ EndsAtTerminal(s, batch)

\* the struct as construction left it
Constructed(s) ==
    /\ last_history_from_server = s.last_history_from_server
    /\ replaying = s.replaying
    /\ current_started_event_id = s.current_started_event_id
    /\ next_started_event_id = s.next_started_event_id
    /\ workflow_start_time = s.workflow_start_time
    /\ workflow_end_time = s.workflow_end_time
    /\ current_wf_time = s.current_wf_time
    /\ all_machines = s.all_machines
    /\ machines_by_event_id = s.machines_by_event_id
    /\ id_to_machine = s.id_to_machine
    /\ commands = s.commands
    /\ current_wf_task_commands = s.current_wf_task_commands
    /\ encountered_change_markers = s.encountered_change_markers
    /\ drive_me = s.drive_me
    /\ have_seen_terminal_event = s.have_seen_terminal_event
    /\ err = s.err
    /\ dispatched = s.dispatched
    /\ cmd_events = s.cmd_events
    /\ taken = s.taken
    /\ cancel_calls = s.cancel_calls
    /\ routed = s.routed
    /\ handled = s.handled
    /\ cancellations = s.cancellations
    /\ passes = s.passes
    /\ command_calls = s.command_calls
    /\ popped = s.popped
    /\ pushed = s.pushed
    /\ replay_ended = s.replay_ended
    /\ started_dispatched = s.started_dispatched

Init ==
    \E h \in Histories : \E a \in TaskStarts(h) : \E history \in Updates(h, a) :
        /\ Constructed(new(history))
        /\ handed_over = a + Len(history.events) - 1
        /\ op = "new"
        /\ results = <<>>
        /\ returned = <<>>
        /\ server_history = h
        /\ updates = 1
        /\ lang_commands = 0
        /\ one_pass = <<>>

\* a caller that got an Err evicts the run: no call follows it
Running == err = "Ok"

\* the server hands over the whole history again, or, once the worker has taken
\* all it was handed, the events that follow
NextStarts ==
    {1} \cup (IF last_history_from_server.events = <<>> THEN {handed_over + 1} ELSE {})

NewHistoryFromServer ==
    /\ Running
    /\ updates < MaxUpdates
    /\ \E a \in NextStarts : \E update \in Updates(server_history, a) :
        /\ Becomes(new_history_from_server(Self, update))
        /\ handed_over' = IF a + Len(update.events) - 1 > handed_over
                          THEN a + Len(update.events) - 1 ELSE handed_over
    /\ op' = "new_history_from_server"
    /\ updates' = updates + 1
    /\ results' = <<>>
    /\ returned' = <<>>
    /\ UNCHANGED <<server_history, lang_commands, one_pass>>

ApplyNextWftFromHistory ==
    /\ Running
    /\ Becomes(apply_next_wft_from_history(Self))
    /\ op' = "apply_next_wft_from_history"
    /\ results' = <<>>
    /\ returned' = <<>>
    /\ UNCHANGED <<server_history, handed_over, updates, lang_commands, one_pass>>

IterateMachines ==
    /\ Running
    /\ \E batch \in Batches(MaxLangCommands - lang_commands) :
        /\ Issuable(Self, batch)
        /\ LET r == iterate_machines(Self, batch)
           IN  /\ Becomes(r.s)
               /\ returned' = IF Failed(r.s) THEN <<>> ELSE <<r.has_new_lang_jobs>>
        /\ results' = batch
        /\ lang_commands' = lang_commands + Len(batch)
    /\ op' = "iterate_machines"
    /\ UNCHANGED <<server_history, handed_over, updates, one_pass>>

GetCommands ==
    /\ Running
    /\ Becomes(Self)
    /\ op' = "get_commands"
    /\ results' = <<>>
    /\ returned' = get_commands(Self)
    /\ UNCHANGED <<server_history, handed_over, updates, lang_commands, one_pass>>

GetWfActivation ==
    /\ Running
    /\ LET r == get_wf_activation(Self)
       IN  /\ Becomes(r.s)
           /\ returned' = r.activation.jobs
    /\ op' = "get_wf_activation"
    /\ results' = <<>>
    /\ UNCHANGED <<server_history, handed_over, updates, lang_commands, one_pass>>

Next ==
    \/ NewHistoryFromServer
    \/ ApplyNextWftFromHistory
    \/ IterateMachines
    \/ GetCommands
    \/ GetWfActivation

Spec == Init /\ [][Next]_vars

(***************************************************************************)
(* The same run with a workflow that also schedules an activity.           *)
(***************************************************************************)
\* the batches that schedule the one activity of the workflow
ActivityBatches == {<<WFCommand("AddActivity", 1, "", FALSE)>>}

IterateMachinesActivity ==
    /\ Running
    /\ lang_commands < MaxLangCommands
    /\ CommandID("Activity", 1) \notin DOMAIN id_to_machine
    /\ \E batch \in ActivityBatches :
        /\ Issuable(Self, batch)
        /\ Becomes(iterate_machines(Self, batch).s)
        /\ returned' = IF Failed(iterate_machines(Self, batch).s) THEN <<>>
                       ELSE <<iterate_machines(Self, batch).has_new_lang_jobs>>
        /\ results' = batch
        /\ lang_commands' = lang_commands + Len(batch)
    /\ op' = "iterate_machines"
    /\ UNCHANGED <<server_history, handed_over, updates, one_pass>>

NextActivity ==
    \/ NewHistoryFromServer
    \/ ApplyNextWftFromHistory
    \/ IterateMachines
    \/ IterateMachinesActivity
    \/ GetCommands
    \/ GetWfActivation

SpecActivity == Init /\ [][NextActivity]_vars

(***************************************************************************)
(* Replay of one history in two ways.  The struct of the variables is      *)
(* handed the events 1..k and later the events k+1..n; one_pass is a       *)
(* second struct that was handed the events 1..n at once.  Every call is   *)
(* made on both, with the same workflow commands; where the first is       *)
(* handed its second update, the other applies its next task.  Both        *)
(* updates that end with event n carry the same previous_started_event_id. *)
(***************************************************************************)
ReplayInit ==
    \E h \in Histories : \E k \in {x \in TaskEnds(h) : x < Len(h)} :
        \E first \in {0, PreviousStarted(h, k)} : \E last \in {0, PreviousStarted(h, Len(h))} :
            /\ Constructed(new(HistoryUpdate(SubSeq(h, 1, k), first)))
            /\ one_pass = new(HistoryUpdate(h, last))
            /\ handed_over = k
            /\ op = "new"
            /\ results = <<>>
            /\ returned = <<>>
            /\ server_history = h
            /\ updates = 1
            /\ lang_commands = 0

\* one_pass as its next call finds it
OnePassSelf ==
    [one_pass EXCEPT !.err = "Ok", !.dispatched = <<>>, !.cmd_events = <<>>,
                     !.taken = <<>>, !.cancel_calls = <<>>, !.command_calls = <<>>,
                     !.routed = <<>>, !.handled = <<>>, !.cancellations = <<>>,
                     !.passes = [consume |-> <<>>, drain |-> <<>>]]

BothRunning == Running /\ one_pass.err = "Ok"

ReplayNewHistory ==
    /\ BothRunning
    /\ last_history_from_server.events = <<>>
    /\ handed_over < Len(server_history)
    /\ Becomes(new_history_from_server(
                   Self, HistoryUpdate(SubSeq(server_history, handed_over + 1,
                                              Len(server_history)),
                                       one_pass.last_history_from_server
                                               .previous_started_event_id)))
    /\ one_pass' = apply_next_wft_from_history(OnePassSelf)
    /\ handed_over' = Len(server_history)
    /\ op' = "new_history_from_server"
    /\ updates' = updates + 1
    /\ results' = <<>>
    /\ returned' = <<>>
    /\ UNCHANGED <<server_history, lang_commands>>

ReplayApply ==
    /\ BothRunning
    /\ last_history_from_server.events # <<>> \/ handed_over = Len(server_history)
    /\ Becomes(apply_next_wft_from_history(Self))
    /\ one_pass' = apply_next_wft_from_history(OnePassSelf)
    /\ op' = "apply_next_wft_from_history"
    /\ results' = <<>>
    /\ returned' = <<>>
    /\ UNCHANGED <<server_history, handed_over, updates, lang_commands>>

ReplayIterate ==
    /\ BothRunning
    /\ \E batch \in Batches(MaxLangCommands - lang_commands) :
        /\ Issuable(Self, batch)
        /\ Becomes(iterate_machines(Self, batch).s)
        /\ one_pass' = iterate_machines(OnePassSelf, batch).s
        /\ results' = batch
        /\ lang_commands' = lang_commands + Len(batch)
    /\ op' = "iterate_machines"
    /\ returned' = <<>>
    /\ UNCHANGED <<server_history, handed_over, updates>>

ReplayNext ==
    \/ ReplayNewHistory
    \/ ReplayApply
    \/ ReplayIterate

SpecReplay == ReplayInit /\ [][ReplayNext]_vars

(***************************************************************************)
(* Replay of a history and of the same history without one of its          *)
(* deprecated patch markers.  The struct of the variables replays the      *)
(* history as the server holds it; one_pass is a second struct that        *)
(* replays it with the marker removed.  Every call is made on both, with   *)
(* the same workflow commands.                                             *)
(***************************************************************************)
\* the history with its patch markers deprecated
Deprecate(h) ==
    [i \in 1..Len(h) |-> IF has_changed_marker_details(h[i])
                         THEN [h[i] EXCEPT !.deprecated = TRUE] ELSE h[i]]

\* an event id of the history without its event k
Shifted(id, k) == IF id > k THEN id - 1 ELSE id

\* the history without its event k: the later events move up by one
RemoveEvent(h, k) ==
    [i \in 1..(Len(h) - 1) |->
        [h[IF i < k THEN i ELSE i + 1] EXCEPT
             !.event_id = i,
             !.init = Shifted(h[IF i < k THEN i ELSE i + 1].init, k)]]

\* A deprecated patch marker behind the event of a timer.
HMarkerAfterTimer == WithIds(<<WES, WTSched, WTStarted(2, 1), WTCompleted(2), TimerStarted,
                               Marker("P", TRUE), WTSched, WTStarted(7, 2)>>)

ToleranceHistories ==
    {HDeprecated, HMarkerAfterTimer, Deprecate(HPatch), Deprecate(HLatePatch)}

DeprecatedMarkers(h) ==
    {k \in 1..Len(h) : has_changed_marker_details(h[k]) /\ h[k].deprecated}

ToleranceInit ==
    \E h \in ToleranceHistories : \E k \in DeprecatedMarkers(h) :
        \E previous \in {0, PreviousStarted(h, Len(h))} :
            /\ Constructed(new(HistoryUpdate(h, previous)))
            /\ one_pass = new(HistoryUpdate(RemoveEvent(h, k), Shifted(previous, k)))
            /\ handed_over = Len(h)
            /\ op = "new"
            /\ results = <<>>
            /\ returned = <<>>
            /\ server_history = h
            /\ updates = 1
            /\ lang_commands = 0

ToleranceApply ==
    /\ Running
    /\ one_pass.err = "Ok"
    /\ Becomes(apply_next_wft_from_history(Self))
    /\ one_pass' = apply_next_wft_from_history(OnePassSelf)
    /\ op' = "apply_next_wft_from_history"
    /\ results' = <<>>
    /\ returned' = <<>>
    /\ UNCHANGED <<server_history, handed_over, updates, lang_commands>>

ToleranceIterate ==
    /\ Running
    /\ one_pass.err = "Ok"
    /\ \E batch \in Batches(MaxLangCommands - lang_commands) :
        /\ Issuable(Self, batch)
        /\ Becomes(iterate_machines(Self, batch).s)
        /\ one_pass' = iterate_machines(OnePassSelf, batch).s
        /\ results' = batch
        /\ lang_commands' = lang_commands + Len(batch)
    /\ op' = "iterate_machines"
    /\ returned' = <<>>
    /\ UNCHANGED <<server_history, handed_over, updates>>

ToleranceNext ==
    \/ ToleranceApply
    \/ ToleranceIterate

SpecTolerance == ToleranceInit /\ [][ToleranceNext]_vars

(***************************************************************************)
(* A run whose workflow starts and cancels a child workflow.  The child    *)
(* workflow machine answers as any TemporalStateMachine may: its           *)
(* MachineResponses are drawn when lang issues the command.                *)
(***************************************************************************)
ContractHistories == {HChild, HOdd, HNoAttrs}

\* the command a machine asks the coordinator to issue
CancelChildCommand == ProtoCommand("RequestCancelExternalWorkflowExecution", 1, "")

\* the command a machine asks for in answer to an event or a command
StrayCommand == ProtoCommand("SignalExternalWorkflowExecution", 1, "")

\* the MachineResponses the child workflow machine gives to each call
Answers ==
    [handle_event : {<<>>, <<IssueNewCommand(StrayCommand)>>},
     handle_command : {<<>>, <<IssueNewCommand(StrayCommand)>>},
     cancel : {<<PushWFJob(Job("ResolveChildWorkflowExecutionStart", 1, "")),
                 IssueNewCommand(CancelChildCommand),
                 PushWFJob(Job("ResolveChildWorkflowExecution", 1, ""))>>,
               <<PushWFJob(Job("ResolveChildWorkflowExecutionStart", 1, "")),
                 TriggerWFTaskStarted(0, 0)>>}]

AddChildWorkflow(seq, answers) ==
    [type |-> "AddChildWorkflow", seq |-> seq, patch_id |-> "", deprecated |-> FALSE,
     answers |-> answers]

CancelUnstartedChild(seq) ==
    [type |-> "CancelUnstartedChild", seq |-> seq, patch_id |-> "", deprecated |-> FALSE,
     answers |-> <<>>]

\* the batches of the workflow: it starts child 1 at most once
ContractBatches(s) ==
    {<<>>, <<CancelUnstartedChild(1)>>}
    \cup (IF CommandID("ChildWorkflowStart", 1) \in DOMAIN s.id_to_machine THEN {}
          ELSE {<<AddChildWorkflow(1, a)>> : a \in Answers}
               \cup {<<AddChildWorkflow(1, a), CancelUnstartedChild(1)>> : a \in Answers})

ContractInit ==
    \E h \in ContractHistories : \E a \in TaskStarts(h) : \E history \in Updates(h, a) :
        /\ Constructed(new(history))
        /\ handed_over = a + Len(history.events) - 1
        /\ op = "new"
        /\ results = <<>>
        /\ returned = <<>>
        /\ server_history = h
        /\ updates = 1
        /\ lang_commands = 0
        /\ one_pass = <<>>

IterateMachinesContract ==
    /\ Running
    /\ \E batch \in ContractBatches(Self) :
        /\ lang_commands + Len(batch) <= MaxLangCommands
        /\ Issuable(Self, batch)
        /\ Becomes(iterate_machines(Self, batch).s)
        /\ returned' = IF Failed(iterate_machines(Self, batch).s) THEN <<>>
                       ELSE <<iterate_machines(Self, batch).has_new_lang_jobs>>
        /\ results' = batch
        /\ lang_commands' = lang_commands + Len(batch)
    /\ op' = "iterate_machines"
    /\ UNCHANGED <<server_history, handed_over, updates, one_pass>>

NextContract ==
    \/ NewHistoryFromServer
    \/ ApplyNextWftFromHistory
    \/ IterateMachinesContract
    \/ GetCommands
    \/ GetWfActivation

SpecContract == ContractInit /\ [][NextContract]_vars

(***************************************************************************)
(* Properties of handle_command_event.  cmd_events holds one record per    *)
(* command event the last call handled: the event, `commands` and the      *)
(* machines as the handler found them, `commands` as it left them, the     *)
(* machine the event was dispatched to (0: none) and the Err so far.       *)
(***************************************************************************)
\* the entry is one the loop passes over: its machine was cancelled before it
\* was sent, or is a Version machine that does not match the event
Skippable(machines, entry, event) ==
    \/ was_cancelled_before_sent_to_server(machines[entry.machine])
    \/ /\ machines[entry.machine].kind = "Version"
       /\ ~matches_event(machines[entry.machine], event)

AllSkippable(ce) ==
    \A i \in 1..Len(ce.commands_before) :
        Skippable(ce.machines_before, ce.commands_before[i], ce.event)

\* C1: whenever handle_command_event dispatches a command event to a machine,
\* that machine belongs to the earliest entry of `commands` that is neither a
\* non-matching Version machine nor cancelled before it was sent, and the call
\* leaves `commands` as the part of the queue that followed that entry.
C1_DispatchToEarliestEligible ==
    \A k \in 1..Len(cmd_events) :
        LET ce == cmd_events[k]
        IN  ce.dispatched_to # 0 =>
                \E i \in 1..Len(ce.commands_before) :
                    /\ ce.commands_before[i].machine = ce.dispatched_to
                    /\ ~Skippable(ce.machines_before, ce.commands_before[i], ce.event)
                    /\ \A j \in 1..(i - 1) :
                          Skippable(ce.machines_before, ce.commands_before[j], ce.event)
                    /\ ce.commands_after =
                          SubSeq(ce.commands_before, i + 1, Len(ce.commands_before))

\* a command event was dispatched to the third entry of `commands`, behind a
\* cancelled timer and a Version machine, or to the second behind one of them
C1_DispatchedBehindSkipped ==
    \E k \in 1..Len(cmd_events) :
        /\ cmd_events[k].dispatched_to # 0
        /\ Len(cmd_events[k].commands_before) >= 2
        /\ cmd_events[k].commands_before[1].machine # cmd_events[k].dispatched_to
        /\ cmd_events[k].err = "Ok"

C3_DeprecatedMarkerNeverFails ==
    \A k \in 1..Len(cmd_events) :
        LET ce == cmd_events[k]
        IN  (/\ has_changed_marker_details(ce.event)
             /\ get_changed_marker_details(ce.event)[2]
             /\ \/ ce.commands_before = <<>>
                \/ ~matches_event(ce.machines_before[Head(ce.commands_before).machine],
                                  ce.event))
            => /\ ce.err = "Ok"
               /\ ce.dispatched_to = 0
               /\ ce.commands_after = ce.commands_before

\* a deprecated patch marker event met a queue headed by a timer and was passed over
C3_DeprecatedMarkerSkipped ==
    \E k \in 1..Len(cmd_events) :
        /\ has_changed_marker_details(cmd_events[k].event)
        /\ get_changed_marker_details(cmd_events[k].event)[2]
        /\ cmd_events[k].commands_before # <<>>
        /\ cmd_events[k].err = "Ok"
        /\ cmd_events[k].dispatched_to = 0


\* both replays have handed all of the history to the machines
ReplayEnded ==
    /\ one_pass # <<>>
    /\ handed_over = Len(server_history)
    /\ last_history_from_server.events = <<>>
    /\ one_pass.last_history_from_server.events = <<>>

\* C4: replaying the events 1..k of a history from one update and the events
\* k+1..n from a second one ends in the same coordinator state
\* (current_started_event_id, next_started_event_id, replaying, commands,
\* machines_by_event_id, the machines, have_seen_terminal_event and the Err)
\* as replaying 1..n from a single update, the workflow commands being the same.
C4_ReplayIdempotence ==
    ReplayEnded =>
        /\ current_started_event_id = one_pass.current_started_event_id
        /\ next_started_event_id = one_pass.next_started_event_id
        /\ replaying = one_pass.replaying
        /\ commands = one_pass.commands
        /\ machines_by_event_id = one_pass.machines_by_event_id
        /\ all_machines = one_pass.all_machines
        /\ have_seen_terminal_event = one_pass.have_seen_terminal_event
        /\ err = one_pass.err

\* both replays came to the end of a history that completes the workflow, the
\* second update having been applied to the struct that was handed two
C4_BothReplaysCompleted ==
    /\ ReplayEnded
    /\ updates = 2
    /\ have_seen_terminal_event
    /\ err = "Ok"

(***************************************************************************)
(* Properties of the replay flag, the queue, the cache miss check and the  *)
(* terminal latch.                                                         *)
(***************************************************************************)
\* the fields of WorkflowMachines
coordinator ==
    <<last_history_from_server, current_started_event_id, next_started_event_id,
      replaying, workflow_start_time, workflow_end_time, current_wf_time,
      all_machines, machines_by_event_id, id_to_machine, commands,
      current_wf_task_commands, encountered_change_markers, drive_me,
      have_seen_terminal_event>>

\* C5 as stated: over a whole run `replaying` goes from true to false once and,
\* once false, never becomes true again.
C5_ReplayingFlipsOnce ==
    [][(~replaying => ~replaying') /\ replay_ended' <= 1]_vars

\* C5 as amended: only new_history_from_server with previous_started_event_id
\* above 0 sets `replaying` to true, so it goes from true to false at most
\* once per history update, unless that update sets it to false itself; when
\* it does, a task sequence was empty or current_started_event_id has reached
\* previous_started_event_id.
C5_ReplayingSetOnlyByNewHistory ==
    [][/\ (~replaying /\ replaying') =>
              /\ op' = "new_history_from_server"
              /\ last_history_from_server'.previous_started_event_id > 0
       /\ replay_ended' # replay_ended =>
              /\ replay_ended' = replay_ended + 1
              /\ ~replaying'
              /\ op' \in {"new_history_from_server", "apply_next_wft_from_history"}
              /\ replaying \/ op' = "new_history_from_server"
              /\ \/ \E i \in 1..Len(taken') : taken'[i] = <<>>
                 \/ current_started_event_id' >=
                        last_history_from_server'.previous_started_event_id
       /\ (replaying /\ ~replaying') =>
              \/ replay_ended' = replay_ended + 1
              \/ /\ op' = "new_history_from_server"
                 /\ last_history_from_server'.previous_started_event_id = 0]_vars

\* `replaying` went from true to false under the first history update and
\* again under the second
C5_ReplayEndedTwice == replay_ended = 2 /\ ~replaying /\ err = "Ok"

\* C6 as stated: in a successful run every command event takes exactly one
\* entry off `commands`, the one at its head.
C6_OneEntryPerCommandEvent ==
    err = "Ok" =>
        \A k \in 1..Len(cmd_events) :
            /\ cmd_events[k].commands_before # <<>>
            /\ cmd_events[k].commands_after = Tail(cmd_events[k].commands_before)

\* C6 as amended: entries leave `commands` in the order they entered it, and a
\* command event that is handled without error either is a deprecated patch
\* marker that takes no entry and reaches no machine, or is dispatched to
\* exactly one machine, that of the last entry it takes off the queue.
C6_EntriesConsumedInOrder ==
    /\ pushed = popped \o commands
    /\ \A k \in 1..Len(cmd_events) :
          LET ce == cmd_events[k]
              took == Len(ce.commands_before) - Len(ce.commands_after)
              calls == {i \in 1..Len(dispatched) :
                            dispatched[i].event_id = ce.event.event_id}
          IN  ce.err = "Ok" =>
                  \/ /\ ce.dispatched_to = 0
                     /\ calls = {}
                     /\ took = 0
                     /\ has_changed_marker_details(ce.event)
                     /\ get_changed_marker_details(ce.event)[2]
                  \/ /\ ce.dispatched_to # 0
                     /\ Cardinality(calls) = 1
                     /\ took >= 1
                     /\ ce.commands_before[took].machine = ce.dispatched_to
                     /\ ce.commands_after =
                            SubSeq(ce.commands_before, took + 1, Len(ce.commands_before))

\* one call handled a deprecated patch marker that took no entry and a command
\* event that took one, ending a run that handled the whole history
C6_MarkerTookNothing ==
    /\ err = "Ok"
    /\ handed_over = Len(server_history)
    /\ last_history_from_server.events = <<>>
    /\ \E k \in 1..Len(cmd_events) :
          cmd_events[k].commands_after = cmd_events[k].commands_before
    /\ \E k \in 1..Len(cmd_events) : cmd_events[k].dispatched_to # 0

\* C7: apply_next_wft_from_history returns CacheMiss exactly when
\* current_started_event_id is 0 and the task sequence it took is non-empty
\* and does not start with event 1; it then dispatches no event, creates no
\* machine and pushes no job.
C7_CacheMiss ==
    [][LET miss == /\ current_started_event_id = 0
                   /\ taken' # <<>>
                   /\ taken'[1] # <<>>
                   /\ taken'[1][1].event_id # 1
       IN  /\ err' = "CacheMiss" =>
                 /\ op' \in {"new_history_from_server", "apply_next_wft_from_history"}
                 /\ miss
           /\ (op' \in {"new_history_from_server", "apply_next_wft_from_history"} /\ miss) =>
                 /\ err' = "CacheMiss"
                 /\ dispatched' = <<>>
                 /\ all_machines' = all_machines
                 /\ drive_me' = drive_me
                 /\ commands' = commands]_vars

\* a struct that has started no task took a sequence that starts after event 1
C7_CacheMissReturned ==
    /\ err = "CacheMiss"
    /\ current_started_event_id = 0
    /\ taken # <<>>
    /\ taken[1][1].event_id > 1
    /\ all_machines = <<>>

\* C8: have_seen_terminal_event is never reset and is set by the call that
\* handles a final workflow execution event; once it is set,
\* apply_next_wft_from_history dispatches no event, takes nothing from the
\* history and leaves every field as it was.
C8_TerminalLatch ==
    [][/\ have_seen_terminal_event => have_seen_terminal_event'
       /\ (~have_seen_terminal_event /\ have_seen_terminal_event') =>
              \E i \in 1..Len(taken') : \E j \in 1..Len(taken'[i]) :
                  is_final_wf_execution_event(taken'[i][j])
       /\ (/\ err' = "Ok"
           /\ \E i \in 1..Len(taken') : \E j \in 1..Len(taken'[i]) :
                  is_final_wf_execution_event(taken'[i][j]))
          => have_seen_terminal_event'
       /\ (have_seen_terminal_event /\ op' = "apply_next_wft_from_history") =>
              /\ UNCHANGED coordinator
              /\ dispatched' = <<>>
              /\ taken' = <<>>
              /\ err' = "Ok"]_vars

\* apply_next_wft_from_history was called with the latch set and events left
\* in the history update
C8_AppliedAfterTerminalEvent ==
    /\ op = "apply_next_wft_from_history"
    /\ have_seen_terminal_event
    /\ last_history_from_server.events # <<>>
    /\ taken = <<>>

(***************************************************************************)
(* Properties of iterate_machines and get_commands.                        *)
(***************************************************************************)
\* the machines of the entries of a queue
MachinesOf(queue) == {queue[i].machine : i \in 1..Len(queue)}

\* C9: a timer that the workflow adds and cancels in one iterate_machines
\* batch is cancelled before it was sent: prepare_commands drops its command,
\* which never enters `commands` and is never returned by get_commands, and
\* the job its cancel() pushed reaches the driver within that call.
C9_CancelBeforeSendDropped ==
    [][/\ \A i \in 1..Len(results') : \A j \in (i + 1)..Len(results') :
              (/\ op' = "iterate_machines"
               /\ results'[i].type = "AddTimer"
               /\ results'[j].type = "CancelTimer"
               /\ results'[j].seq = results'[i].seq)
              => /\ Len(results') = 2 => err' = "Ok"
                 /\ err' = "Ok" =>
                       LET m == id_to_machine'[CommandID("Timer", results'[i].seq)]
                       IN  /\ was_cancelled_before_sent_to_server(all_machines'[m])
                           /\ m \notin MachinesOf(commands')
                           /\ current_wf_task_commands' = <<>>
                           /\ Len(drive_me'.jobs) > Len(drive_me.jobs)
                           /\ \E n \in (Len(drive_me.jobs) + 1)..Len(drive_me'.jobs) :
                                 drive_me'.jobs[n] = Job("CancelTimer", results'[i].seq, "")
                           /\ returned' = <<TRUE>>
       /\ \A m \in 1..Len(all_machines) :
              (/\ was_cancelled_before_sent_to_server(all_machines[m])
               /\ m \notin MachinesOf(commands))
              => m \notin MachinesOf(commands')
       /\ op' = "get_commands" =>
              \A k \in 1..Len(returned') :
                  returned'[k].command_type = "StartTimer" =>
                      ~was_cancelled_before_sent_to_server(
                          all_machines'[id_to_machine'[CommandID("Timer",
                                                                 returned'[k].seq)]])]_vars

\* iterate_machines fetched AddTimer and CancelTimer of one timer in one batch
C9_AddedAndCancelledInOneBatch ==
    /\ op = "iterate_machines"
    /\ err = "Ok"
    /\ \E i \in 1..Len(results) : \E j \in (i + 1)..Len(results) :
          /\ results[i].type = "AddTimer"
          /\ results[j].type = "CancelTimer"
          /\ results[j].seq = results[i].seq
    /\ commands = <<>>
    /\ \E n \in 1..Len(drive_me.jobs) : drive_me.jobs[n].variant = "CancelTimer"

\* C10: get_commands returns, in queue order, the commands of exactly those
\* entries of `commands` whose machine is not in a final state, also once the
\* workflow is finished, and leaves `commands` and every other field as it was.
C10_GetCommandsSnapshot ==
    [][op' = "get_commands" =>
          LET live == {i \in 1..Len(commands) :
                          ~is_final_state(all_machines[commands[i].machine])}
          IN  /\ UNCHANGED coordinator
              /\ Len(returned') = Cardinality(live)
              /\ \A i \in live :
                    returned'[Cardinality({j \in live : j <= i})] = commands[i].command]_vars

\* get_commands left out the command of a machine in a final state
C10_FinalMachineFiltered ==
    /\ op = "get_commands"
    /\ Len(returned) < Len(commands)

(***************************************************************************)
(* Properties of the started event ids and of the workflow time.           *)
(***************************************************************************)
\* the last call applied a task of the history and returned Ok
TaskApplied ==
    /\ op \in {"new_history_from_server", "apply_next_wft_from_history"}
    /\ err = "Ok"
    /\ \E i \in 1..Len(taken) : taken[i] # <<>>

\* C11: after every successful apply_next_wft_from_history that applied a
\* task, current_started_event_id is the id of the most recent
\* WorkflowTaskStarted event that was dispatched with has_next_event false.
C11_CurrentStartedIsLastDispatched ==
    TaskApplied =>
        /\ started_dispatched # 0
        /\ current_started_event_id = started_dispatched

\* a task that ends the workflow was applied: its sequence holds no
\* WorkflowTaskStarted, the most recent one was dispatched by an earlier call
C11_TaskWithoutStartedApplied ==
    /\ TaskApplied
    /\ have_seen_terminal_event
    /\ \A i \in 1..Len(dispatched) : dispatched[i].event_type # "WorkflowTaskStarted"
    /\ current_started_event_id > 3

\* the time of the WorkflowTaskStarted event that ends the sequence the call
\* took, 0 when it took none
StartedTime(sequences) ==
    IF /\ sequences # <<>>
       /\ sequences[1] # <<>>
       /\ sequences[1][Len(sequences[1])].event_type = "WorkflowTaskStarted"
    THEN sequences[1][Len(sequences[1])].time
    ELSE 0

\* C12: the workflow time never decreases and, once set, is never cleared: a
\* call that was given a time that is not greater keeps the time it had, and
\* one that was given a greater time takes it.
C12_WorkflowTimeMonotonic ==
    [][/\ current_wf_time' >= current_wf_time
       /\ current_wf_time # 0 => current_wf_time' # 0
       /\ (/\ op' \in {"new_history_from_server", "apply_next_wft_from_history"}
           /\ err' = "Ok")
          => current_wf_time' = IF StartedTime(taken') > current_wf_time
                                THEN StartedTime(taken') ELSE current_wf_time
       /\ op' \notin {"new_history_from_server", "apply_next_wft_from_history"}
          => current_wf_time' = current_wf_time]_vars

\* a task was applied whose WorkflowTaskStarted event carries an earlier time
\* than the workflow time, which was kept
C12_EarlierTimeIgnored ==
    /\ TaskApplied
    /\ StartedTime(taken) # 0
    /\ StartedTime(taken) < current_wf_time

\* the machines created for a patch id
PatchMachines(machines, patch_id) ==
    {m \in 1..Len(machines) : /\ machines[m].kind = "Version"
                              /\ machines[m].patch_id = patch_id}

\* C13: at most one patch machine is ever created for a patch id: a
\* SetPatchMarker for a patch id that already has its command creates no
\* machine, whatever tasks were applied and pre-scanned in between.
C13_OnePatchMachinePerId ==
    Cardinality(PatchMachines(all_machines, "P")) <= 1

\* the pre-scan of a later task met the marker of a patch whose command
\* exists already, and recorded that no command was created for it
C13_PreScanForgotCommand ==
    /\ op = "apply_next_wft_from_history"
    /\ err = "Ok"
    /\ PatchMachines(all_machines, "P") # {}
    /\ "P" \in DOMAIN encountered_change_markers
    /\ ~encountered_change_markers["P"].created_command

TerminalCommands == {"CompleteWorkflow", "FailWorkflow", "ContinueAsNew", "CancelWorkflow"}

\* the batch of workflow commands holds a terminal command
HasTerminalCommand(batch) ==
    \E i \in 1..Len(batch) : batch[i].type \in TerminalCommands

\* C14: the workflow is not finished when the struct is built; it becomes
\* finished only in an iterate_machines call whose batch holds a
\* CompleteWorkflow, FailWorkflow, ContinueAsNew or CancelWorkflow command,
\* every such call that succeeds leaves it finished, and once finished it
\* stays finished through every later operation.
C14_FinishedByTerminalCommand ==
    /\ ~workflow_is_finished(Self)
    /\ [][/\ workflow_is_finished(Self) => workflow_is_finished(Self)'
          /\ (~workflow_is_finished(Self) /\ workflow_is_finished(Self)')
             => (op' = "iterate_machines" /\ HasTerminalCommand(results'))
          /\ (op' = "iterate_machines" /\ err' = "Ok" /\ HasTerminalCommand(results'))
             => workflow_is_finished(Self)']_vars

\* a workflow that finished stayed finished through a later task application
C14_FinishedThenApplied ==
    /\ workflow_is_finished(Self)
    /\ TaskApplied

(***************************************************************************)
(* Properties of the jobs handed to lang.                                  *)
(***************************************************************************)
\* the job variant a history event produces by itself, "" when it produces none
EventJob(e) ==
    CASE e.event_type = "WorkflowExecutionStarted" -> "StartWorkflow"
      [] e.event_type = "WorkflowExecutionSignaled" /\ e.attrs_ok -> "SignalWorkflow"
      [] e.event_type = "TimerFired" -> "FireTimer"
      [] OTHER -> ""

\* the variants of the jobs the events of a sequence produce, in event order
EventJobs(events) ==
    LET producing == SelectSeq(events, LAMBDA e : EventJob(e) # "")
    IN  [i \in 1..Len(producing) |-> EventJob(producing[i])]

\* the variants of the jobs of a buffer that history events produced
JobsOfEvents(jobs) ==
    LET produced == SelectSeq(jobs, LAMBDA j : j.variant \in {"StartWorkflow",
                                                              "SignalWorkflow",
                                                              "FireTimer"})
    IN  [i \in 1..Len(produced) |-> produced[i].variant]

\* the jobs a call appended to the buffer
Appended(before, after) == SubSeq(after, Len(before) + 1, Len(after))

\* the jobs of a pre-scan are behind every other job
PreScanJobsLast(jobs) ==
    \A i \in 1..Len(jobs) : \A j \in (i + 1)..Len(jobs) :
        jobs[i].variant = "NotifyHasPatch" => jobs[j].variant = "NotifyHasPatch"

\* C15: jobs reach lang in the order they were produced and each once.  A
\* call other than get_wf_activation only appends to the buffer; an apply
\* appends the jobs of its events in event order, and the NotifyHasPatch
\* jobs of its pre-scan after them.  get_wf_activation returns the whole
\* buffer in its order and empties it, so a second one right after it
\* returns no jobs, and it changes no machine, queue or index.
C15_JobsDeliveredOnceInOrder ==
    [][/\ op' = "get_wf_activation"
          => /\ returned' = drive_me.jobs
             /\ drive_me' = [drive_me EXCEPT !.jobs = <<>>]
             /\ UNCHANGED <<all_machines, machines_by_event_id, id_to_machine, commands,
                            current_wf_task_commands, encountered_change_markers>>
       /\ (op = "get_wf_activation" /\ op' = "get_wf_activation") => returned' = <<>>
       /\ (op' # "get_wf_activation" /\ err' = "Ok")
          => /\ Len(drive_me.jobs) <= Len(drive_me'.jobs)
             /\ SubSeq(drive_me'.jobs, 1, Len(drive_me.jobs)) = drive_me.jobs
       /\ (/\ op' \in {"new_history_from_server", "apply_next_wft_from_history"}
           /\ err' = "Ok" /\ taken' # <<>>)
          => /\ JobsOfEvents(Appended(drive_me.jobs, drive_me'.jobs))
                    = EventJobs(taken'[1])
             /\ PreScanJobsLast(Appended(drive_me.jobs, drive_me'.jobs))]_vars

\* an activation carried jobs of more than one call, the last one pushed by a
\* pre-scan or a cancellation
C15_ActivationOfSeveralCalls ==
    /\ op = "get_wf_activation"
    /\ Len(returned) >= 2
    /\ returned[1].variant = "StartWorkflow"
    /\ returned[Len(returned)].variant \in {"NotifyHasPatch", "CancelTimer"}
    /\ drive_me.jobs = <<>>

\* C16: iterate_machines returns true exactly when the call pushed a job
\* to the driver, whether a cancel() or a handle_command produced it.
C16_FlagIffJobPushed ==
    [][(op' = "iterate_machines" /\ err' = "Ok")
       => (returned' = <<TRUE>> <=> Len(drive_me'.jobs) > Len(drive_me.jobs))]_vars

\* iterate_machines pushed the job of a cancellation and returned true
C16_CancellationJobReported ==
    /\ op = "iterate_machines"
    /\ err = "Ok"
    /\ returned = <<TRUE>>
    /\ drive_me.jobs # <<>>
    /\ drive_me.jobs[Len(drive_me.jobs)].variant = "CancelTimer"

C18_IndexedMachinesNotFinal ==
    \A id \in DOMAIN machines_by_event_id :
        ~is_final_state(all_machines[machines_by_event_id[id]])

\* a successful apply handled the TimerCanceled event of a timer that stays
\* indexed under the id of its TimerStarted event
C18_CancelledTimerStillIndexed ==
    /\ TaskApplied
    /\ \E id \in DOMAIN machines_by_event_id :
          /\ all_machines[machines_by_event_id[id]].kind = "Timer"
          /\ all_machines[machines_by_event_id[id]].state = "Canceled"
          /\ \E i \in 1..Len(cmd_events) :
                /\ cmd_events[i].event.event_type = "TimerCanceled"
                /\ cmd_events[i].event.init = id

(***************************************************************************)
(* Properties of the started event ids against the history.                *)
(***************************************************************************)
\* C19: in every reachable state current_started_event_id is at most
\* next_started_event_id, which is at most the largest event id the struct
\* was handed so far.
C19_StartedIdsOrdered ==
    /\ current_started_event_id <= next_started_event_id
    /\ next_started_event_id <= handed_over

\* an apply of the last sequence handed over failed behind its
\* WorkflowTaskCompleted event: next_started_event_id is the largest event id
\* handed over and current_started_event_id is behind it
C19_FailedBehindNextStarted ==
    /\ op = "apply_next_wft_from_history"
    /\ err = "Nondeterminism"
    /\ 0 < current_started_event_id
    /\ current_started_event_id < next_started_event_id
    /\ next_started_event_id = handed_over

(***************************************************************************)
(* Properties of has_next_event.                                           *)
(***************************************************************************)
\* the id of the last event of the sequence the call took
LastTaken == taken[1][Len(taken[1])].event_id

\* C20: every event of the sequence a call took is handed to its machine's
\* handle_event with has_next_event true exactly when it is not the last event
\* of the sequence, whatever kind of event the last one is.
C20_HasNextExactlyWhenNotLast ==
    (taken # <<>> /\ taken[1] # <<>>)
    => \A i \in 1..Len(dispatched) :
           dispatched[i].has_next_event = (dispatched[i].event_id # LastTaken)

\* a successful apply handed the command event that ends its sequence to the
\* machine of the command
C20_CommandEventEndsSequence ==
    /\ TaskApplied
    /\ dispatched # <<>>
    /\ dispatched[Len(dispatched)].event_id = LastTaken
    /\ dispatched[Len(dispatched)].event_type = "WorkflowExecutionCompleted"
    /\ dispatched[Len(dispatched)].has_next_event

(***************************************************************************)
(* Properties of the patch pre-scan.                                       *)
(***************************************************************************)
\* the events of the task that follows the applied one, as the struct holds them
NextTask == peek_next_wft_sequence(last_history_from_server)

\* the details of the patch markers among them
NextTaskMarkers ==
    {get_changed_marker_details(NextTask[i]) :
        i \in {j \in 1..Len(NextTask) : has_changed_marker_details(NextTask[j])}}

\* C21: when an apply has applied a task, every patch marker among the events
\* of the next task has its NotifyHasPatch job in the buffer for lang and its
\* patch id in encountered_change_markers with created_command false; no
\* event of that next task was dispatched yet.
C21_NextTaskMarkersAnnounced ==
    TaskApplied =>
        \A d \in NextTaskMarkers :
            /\ d[1] \in DOMAIN encountered_change_markers
            /\ encountered_change_markers[d[1]] =
                   [deprecated |-> d[2], created_command |-> FALSE]
            /\ \E n \in 1..Len(drive_me.jobs) :
                   drive_me.jobs[n] = Job("NotifyHasPatch", 0, d[1])
            /\ \A n \in 1..Len(dispatched) :
                   dispatched[n].event_id < NextTask[1].event_id

\* a task was applied while the next one, which holds a patch marker, waits
C21_MarkerAhead ==
    /\ TaskApplied
    /\ NextTaskMarkers # {}

(***************************************************************************)
(* Properties of the routing of events that name an initiating event       *)
(***************************************************************************)
\* the calls of handle_event on machines for the event with this id
DispatchesOf(event_id) ==
    {k \in 1..Len(dispatched) : dispatched[k].event_id = event_id}

\* C22: an event that is no command event and names an initiating event id for
\* which machines_by_event_id has no entry makes handle_event return
\* Nondeterminism, and no machine receives it; if there is an entry, the event
\* is handed to the indexed machine and to no other, and after an Ok of
\* handle_event the entry is present exactly if that machine is not final.
C22_InitiatedEventRouting ==
    \A n \in 1..Len(routed) :
        /\ routed[n].indexed = 0 =>
               /\ routed[n].err = "Nondeterminism"
               /\ err = "Nondeterminism"
               /\ DispatchesOf(routed[n].event_id) = {}
        /\ routed[n].indexed # 0 =>
               /\ Cardinality(DispatchesOf(routed[n].event_id)) = 1
               /\ \A k \in DispatchesOf(routed[n].event_id) :
                      dispatched[k].machine = routed[n].indexed
        /\ routed[n].err = "Ok" => (routed[n].present <=> ~routed[n].final)

C22_RemovedAndMissing ==
    \E n, k \in 1..Len(routed) :
        /\ routed[n].indexed # 0
        /\ routed[n].err = "Ok"
        /\ routed[n].final
        /\ ~routed[n].present
        /\ routed[k].indexed = 0

(***************************************************************************)
(* Properties of the handling of machine responses                         *)
(***************************************************************************)
\* a machine answered a handle_event call of this call with IssueNewCommand
IssuedFromEvent ==
    \E k \in 1..Len(dispatched) :
        \E n \in 1..Len(all_machines[dispatched[k].machine].answers.handle_event) :
            all_machines[dispatched[k].machine].answers.handle_event[n].type
                = "IssueNewCommand"

\* a machine answered a handle_command call of this call with IssueNewCommand
IssuedFromCommand ==
    \E k \in 1..Len(command_calls) :
        \E n \in 1..Len(all_machines[command_calls[k].machine].answers.handle_command) :
            all_machines[command_calls[k].machine].answers.handle_command[n].type
                = "IssueNewCommand"

\* the command of such an answer is in one of the two queues
StrayCommandQueued ==
    \/ \E k \in 1..Len(commands) : commands[k].command = StrayCommand
    \/ \E k \in 1..Len(current_wf_task_commands) :
          current_wf_task_commands[k].command = StrayCommand

\* C23: when a machine answers handle_event or handle_command with
\* IssueNewCommand, the call returns the Fatal error to its caller and the
\* command of the answer is added to neither `commands` nor
\* current_wf_task_commands.
C23_StrayIssueNewCommandIsFatal ==
    /\ (IssuedFromEvent \/ IssuedFromCommand) => err = "Fatal"
    /\ ~StrayCommandQueued

C23_PanickedOnAnswer ==
    /\ IssuedFromCommand
    /\ err = "Panic"
    /\ ~StrayCommandQueued

(***************************************************************************)
(* Properties of the events that no machine handles                        *)
(***************************************************************************)
\* a non-stateful event that lacks the attributes of its type
Malformed(e) ==
    /\ e.event_type \in {"WorkflowExecutionStarted", "WorkflowExecutionSignaled",
                         "WorkflowExecutionCancelRequested"}
    /\ ~e.attrs_ok

\* C24: handle_event returns the Fatal error for a WorkflowExecutionStarted,
\* WorkflowExecutionSignaled or WorkflowExecutionCancelRequested event that
\* lacks its attributes, and forwards nothing to the driver for it.
C24_MalformedEventIsFatal ==
    \A n \in 1..Len(handled) :
        Malformed(handled[n].event) =>
            /\ handled[n].err = "Fatal"
            /\ ~handled[n].forwarded

C24_MalformedSignalAccepted ==
    \E n \in 1..Len(handled) :
        /\ Malformed(handled[n].event)
        /\ handled[n].event.event_type = "WorkflowExecutionSignaled"
        /\ handled[n].err = "Ok"
        /\ ~handled[n].forwarded

(***************************************************************************)
(* Properties of the preparation of commands                               *)
(***************************************************************************)
\* the entries of current_wf_task_commands whose machine was not cancelled
\* before its command was sent
Sendable(s) ==
    SelectSeq(s.current_wf_task_commands,
              LAMBDA c : ~was_cancelled_before_sent_to_server(machine(s, c.machine)))

\* C25: an iterate_machines that returns Ok leaves current_wf_task_commands
\* empty and `commands` as it was, followed by the entries the fetched workflow
\* commands put on current_wf_task_commands whose machine was not cancelled
\* before sending, in their order; handle_command was called once for each of
\* these entries, in that order, and for no other.
C25_PreparedCommands ==
    [][(op' = "iterate_machines" /\ err' = "Ok") =>
          /\ current_wf_task_commands' = <<>>
          /\ commands' = commands \o Sendable(handle_driven_results(Self, results', <<>>).s)
          /\ command_calls' = Sendable(handle_driven_results(Self, results', <<>>).s)]_vars

C25_CancelledEntryDropped ==
    /\ op = "iterate_machines"
    /\ err = "Ok"
    /\ results = <<WFCommand("AddTimer", 1, "", FALSE), WFCommand("CancelTimer", 1, "", FALSE)>>
    /\ command_calls = <<>>
    /\ current_wf_task_commands = <<>>

(***************************************************************************)
(* Properties of process_cancellation                                      *)
(***************************************************************************)
\* the responses of the given type among res, in order
ResponsesOf(res, type) == SelectSeq(res, LAMBDA r : r.type = type)

\* the machines on which the process_cancellation calls of the call called cancel()
CancelledMachines ==
    [n \in 1..Len(SelectSeq(cancellations, LAMBDA c : c.m_key # 0)) |->
        SelectSeq(cancellations, LAMBDA c : c.m_key # 0)[n].m_key]

\* the entries a process_cancellation call appended to current_wf_task_commands
AppendedBy(c) ==
    SubSeq(c.current_after, Len(c.current_before) + 1, Len(c.current_after))

\* C26: process_cancellation(id) returns Fatal and calls cancel() on no machine
\* when id_to_machine has no entry for id; otherwise it calls cancel() on the
\* machine of the entry and on no other, appends one entry with that machine to
\* the tail of current_wf_task_commands for each IssueNewCommand response,
\* returns the jobs of the PushWFJob responses in their order, and returns
\* Fatal when cancel() answered with any other response.
C26_ProcessCancellation ==
    /\ cancel_calls = CancelledMachines
    /\ \A n \in 1..Len(cancellations) :
          /\ cancellations[n].m_key = 0 =>
                 /\ cancellations[n].err = "Fatal"
                 /\ cancellations[n].current_after = cancellations[n].current_before
          /\ (cancellations[n].m_key # 0 /\ cancellations[n].cancel_err = "Ok") =>
                 IF \A k \in 1..Len(cancellations[n].responses) :
                        cancellations[n].responses[k].type
                            \in {"IssueNewCommand", "PushWFJob"}
                 THEN /\ cancellations[n].err = "Ok"
                      /\ SubSeq(cancellations[n].current_after, 1,
                                Len(cancellations[n].current_before))
                             = cancellations[n].current_before
                      /\ AppendedBy(cancellations[n]) =
                             [k \in 1..Len(ResponsesOf(cancellations[n].responses,
                                                       "IssueNewCommand")) |->
                                 CommandAndMachine(
                                     ResponsesOf(cancellations[n].responses,
                                                 "IssueNewCommand")[k].command,
                                     cancellations[n].m_key)]
                      /\ cancellations[n].jobs =
                             [k \in 1..Len(ResponsesOf(cancellations[n].responses,
                                                       "PushWFJob")) |->
                                 ResponsesOf(cancellations[n].responses, "PushWFJob")[k].job]
                 ELSE cancellations[n].err = "Fatal"

C26_JobsAndCommandOfOneCancel ==
    \E n \in 1..Len(cancellations) :
        /\ cancellations[n].err = "Ok"
        /\ Len(cancellations[n].jobs) = 2
        /\ Len(AppendedBy(cancellations[n])) = 1
        /\ cancellations[n].current_before # <<>>

(***************************************************************************)
(* Properties of patch markers that meet the wrong command                 *)
(***************************************************************************)
\* the command event of record ce carries the details of a patch marker that is
\* not deprecated, and the machine at the head of `commands` does not match it
UnmatchedMarker(ce) ==
    /\ ce.commands_before # <<>>
    /\ has_changed_marker_details(ce.event)
    /\ ~get_changed_marker_details(ce.event)[2]
    /\ ~matches_event(ce.machines_before[Head(ce.commands_before).machine], ce.event)

\* C27: a command event with the details of a patch marker that is not
\* deprecated, met by a head of `commands` whose machine does not match it,
\* makes handle_event return Nondeterminism; the call hands the event to no
\* machine and leaves `commands` and every machine as they were.
C27_UnmatchedMarkerIsNondeterminism ==
    \A k \in 1..Len(cmd_events) :
        UnmatchedMarker(cmd_events[k]) =>
            /\ cmd_events[k].err = "Nondeterminism"
            /\ err = "Nondeterminism"
            /\ cmd_events[k].dispatched_to = 0
            /\ cmd_events[k].commands_after = cmd_events[k].commands_before
            /\ commands = cmd_events[k].commands_before
            /\ all_machines = cmd_events[k].machines_before

C27_MarkerMetTimer ==
    \E k \in 1..Len(cmd_events) :
        /\ UnmatchedMarker(cmd_events[k])
        /\ machine(Self, Head(commands).machine).kind = "Timer"
        /\ err = "Nondeterminism"

(***************************************************************************)
(* Properties of the two command queues across the calls                   *)
(***************************************************************************)
\* q is what is left of p after entries were taken off its front
LeftOf(q, p) == Len(q) <= Len(p) /\ q = SubSeq(p, Len(p) - Len(q) + 1, Len(p))

\* q is p with entries put on its back
GrownFrom(q, p) == Len(p) <= Len(q) /\ p = SubSeq(q, 1, Len(p))

\* C28: applying history (new_history_from_server, apply_next_wft_from_history
\* and the handle_event calls they make) puts no entry on `commands` or on
\* current_wf_task_commands, and iterate_machines takes no entry off `commands`.
C28_QueueFrame ==
    [][/\ op' \in {"new_history_from_server", "apply_next_wft_from_history"} =>
            /\ LeftOf(commands', commands)
            /\ pushed' = pushed
            /\ current_wf_task_commands' = current_wf_task_commands
       /\ op' = "iterate_machines" =>
            /\ GrownFrom(commands', commands)
            /\ popped' = popped]_vars

C28_EventTookCommand ==
    /\ op = "apply_next_wft_from_history"
    /\ err = "Ok"
    /\ commands # <<>>
    /\ \E k \in 1..Len(cmd_events) :
          /\ cmd_events[k].commands_after = Tail(cmd_events[k].commands_before)
          /\ cmd_events[k].commands_after # <<>>

(***************************************************************************)
(* Properties of the machine registry                                      *)
(***************************************************************************)
\* the machine keys held by the two queues and the two indexes
HeldKeys ==
    {commands[k].machine : k \in 1..Len(commands)}
    \cup {current_wf_task_commands[k].machine : k \in 1..Len(current_wf_task_commands)}
    \cup {machines_by_event_id[e] : e \in DOMAIN machines_by_event_id}
    \cup {id_to_machine[i] : i \in DOMAIN id_to_machine}

\* C29: all_machines only grows and a key keeps its machine: every key in
\* `commands`, current_wf_task_commands, machines_by_event_id and id_to_machine
\* is the key of a machine in all_machines, in every state.
C29_KeysReferToMachines ==
    /\ [](HeldKeys \subseteq DOMAIN all_machines)
    /\ [][/\ Len(all_machines') >= Len(all_machines)
           /\ \A k \in DOMAIN all_machines :
                 /\ all_machines'[k].kind = all_machines[k].kind
                 /\ all_machines'[k].seq = all_machines[k].seq]_vars

C29_KeysInQueueAndIndexes ==
    /\ commands # <<>>
    /\ DOMAIN machines_by_event_id # {}
    /\ DOMAIN id_to_machine # {}
    /\ Len(all_machines) >= 3

(***************************************************************************)
(* The loops of a call end: what bounds their passes                       *)
(***************************************************************************)
\* each length is one less than the length before it
CountsDown(lengths) ==
    \A n \in 1..(Len(lengths) - 1) : lengths[n + 1] = lengths[n] - 1

\* C30: the loops of a call are bounded.  Every pass of the loop of
\* handle_command_event but the last takes one entry off `commands`, so a
\* command event costs at most one pass more than `commands` has entries;
\* every pass of the loop of prepare_commands finds current_wf_task_commands
\* one entry shorter; and apply_next_wft_from_history calls handle_event once
\* for each event of the task sequence it took, in order, each call handing the
\* event to at most one machine.
C30_LoopsBounded ==
    /\ \A k \in 1..Len(cmd_events) :
          /\ cmd_events[k].passes # <<>>
          /\ cmd_events[k].passes[1] = Len(cmd_events[k].commands_before)
          /\ CountsDown(cmd_events[k].passes)
          /\ Len(cmd_events[k].passes) <= Len(cmd_events[k].commands_before) + 1
    /\ CountsDown(passes.drain)
    /\ (passes.drain # <<>> /\ err = "Ok") => passes.drain[Len(passes.drain)] = 1
    /\ handled # <<>> =>
          /\ Len(taken) = 1
          /\ Len(handled) <= Len(taken[1])
          /\ \A n \in 1..Len(handled) :
                /\ handled[n].event = taken[1][n]
                /\ Cardinality(DispatchesOf(handled[n].event.event_id)) <= 1
    /\ Len(dispatched) <= Len(handled)

C30_SecondPassConsumed ==
    /\ err = "Ok"
    /\ Len(handled) >= 3
    /\ \E k \in 1..Len(cmd_events) :
          /\ Len(cmd_events[k].passes) = 2
          /\ cmd_events[k].dispatched_to # 0

(***************************************************************************)
(* A command is handled by its machine before its event is                 *)
(***************************************************************************)
\* the entry the command event of record ce was fed to had been put on
\* `commands` and was taken off it; a machine that took the event matches it
ConsumedWasPrepared(ce) ==
    \E n \in 1..Len(popped) :
        /\ n <= Len(pushed)
        /\ popped[n] = pushed[n]
        /\ popped[n].machine = ce.dispatched_to
        /\ ce.err = "Ok" => matches_event(ce.machines_before[popped[n].machine], ce.event)

\* C31: every entry that reaches `commands` is put there by prepare_commands
\* right after handle_command was called on its machine for its command (only
\* the last handle_command of a failed call has no entry put), and a
\* machine gets a command event from handle_command_event only as the machine
\* of an entry that was put on `commands` before and is taken off for the event.
C31_CommandBeforeEvent ==
    /\ [](\A k \in 1..Len(cmd_events) :
              cmd_events[k].dispatched_to # 0 => ConsumedWasPrepared(cmd_events[k]))
    /\ [][\E m \in 0..Len(command_calls') :
              /\ pushed' = pushed \o SubSeq(command_calls', 1, m)
              /\ m >= Len(command_calls') - 1
              /\ err' = "Ok" => m = Len(command_calls')]_vars

C31_CancelEventAfterCancelCommand ==
    /\ err = "Ok"
    /\ \E k \in 1..Len(cmd_events) :
          /\ cmd_events[k].event.event_type = "TimerCanceled"
          /\ cmd_events[k].dispatched_to # 0
          /\ \E n \in 1..Len(popped) :
                /\ popped[n].command.command_type = "CancelTimer"
                /\ popped[n].machine = cmd_events[k].dispatched_to

====
